---- MODULE Spec2Model ----
(***************************************************************************)
(* A model of the royals graph of WikiDeep: the entity store               *)
(* (RoyalsGraph._royals), the crawl that fills it (fill_graph,             *)
(* add_children_parents), the family-subgraph extraction and the two       *)
(* path searches (connected_breadth, connected_depth) raced by the user    *)
(* interface.                                                              *)
(***************************************************************************)
EXTENDS Integers, Sequences, FiniteSets, TLC

(***************************************************************************)
(* Universe of the model.                                                  *)
(***************************************************************************)
\* wikidata ids the knowledge source knows
Ids == {"Q1", "Q2", "Q3"}
\* Optional[str] of get_wikidata_id: the value None
NoneId == "None"
\* ids and names a caller passes to add_royal / add_royal_with_birth_year / add_edge
ApiIds == {"Q1", "Q2"}
ApiNames == {"Anne", "Bob"}
\* the label the knowledge source returns with an id (childLabel / itemLabel)
Label(id) == "label"
\* root names handed to fill_graph
RootNamePool == {"George V", "Victoria", "NoSuchPerson12345"}
\* largest max_depth handed to fill_graph
MaxDepth == 2
\* largest number of parent-child statements (P40) in the knowledge source
MaxSourceEdges == 2
\* largest number of edges of a graph load() returns
MaxGraphEdges == 5

VARIABLES
    royals,        \* RoyalsGraph._royals: wiki id -> _Royal
    op,            \* the last call on the store and how it ended
    pc,            \* "idle", or where fill_graph is: "fill", "done"
    P40,           \* knowledge source: the set of <<parent, child>> statements
    root_names,    \* fill_graph's argument
    roots_todo,    \* the names the for loop of fill_graph has yet to take
    max_depth,     \* fill_graph's argument
    royals_queue,  \* fill_graph's royals_queue: <<depth, id, name>> entries
    royals_added,  \* fill_graph's royals_added
    counter,       \* fill_graph's counter
    graph_files,   \* the checkpoints save() has written, oldest first
    family,        \* visualize_family's graph
    family_depth,  \* visualize_family's max_depth
    family_id,     \* visualize_family's wiki_id: the root royal
    family_queue,  \* visualize_family's royals_queue
    query_ids,     \* <<id1, id2>> handed to connected_breadth and connected_depth
    frontier,      \* the queue of connected_breadth / the stack of connected_depth
    visited,       \* the visited set of the search that is running
    breadth,       \* what connected_breadth returned
    depth,         \* what connected_depth returned
    birthdate,     \* what get_birthdate answered the last add_royal of a caller that asked
    disk,          \* the files on disk: path -> content
    now,           \* datetime.datetime.now(), in seconds
    len_royals,    \* len(self._royals) of a crawl followed by its size only
    race,          \* what get_race_results_text was given and what it returned
    fetch,         \* a WikiExtract fetch in progress: request, retries, sleeps, result
    no_data,       \* knowledge source: the <<fetch, id>> it answers None to
    expanded,      \* the ids the running search has taken from its queue or stack
    once,          \* a crawl that puts an id on its queue once: graph, queue, ids queued
    query_royal_ids,      \* UserInterface.query_royal_ids
    current_mode_method,  \* UserInterface.current_mode_method, by name
    menu           \* the pygame_menu.Menu whose mainloop is running

vars == <<royals, op, pc, P40, root_names, roots_todo, max_depth,
          royals_queue, royals_added, counter, graph_files,
          family, family_depth, family_id, family_queue,
          query_ids, frontier, visited, breadth, depth,
          birthdate, disk, now, len_royals, race, fetch, no_data, expanded, once,
          query_royal_ids, current_mode_method, menu>>

searchVars == <<query_ids, frontier, visited, breadth, depth, expanded>>

familyVars == <<family, family_depth, family_id, family_queue>>

\* what the store calls, the crawl, the family extraction and the searches
\* leave alone
uiVars == <<query_royal_ids, current_mode_method, menu>>

ioVars == <<disk, now, len_royals, race, fetch, once, uiVars>>

crawlVars == <<P40, no_data, root_names, roots_todo, max_depth,
               royals_queue, royals_added, counter, graph_files>>

(***************************************************************************)
(* Strings are sequences of characters.                                    *)
(***************************************************************************)
Digits == {"0", "1", "2", "3", "4", "5", "6", "7", "8", "9"}

DigitValue(c) ==
    CASE c = "0" -> 0 [] c = "1" -> 1 [] c = "2" -> 2 [] c = "3" -> 3
      [] c = "4" -> 4 [] c = "5" -> 5 [] c = "6" -> 6 [] c = "7" -> 7
      [] c = "8" -> 8 [] c = "9" -> 9

\* str.isdigit(): non-empty and every character a digit
isdigit(s) == Len(s) > 0 /\ \A i \in 1..Len(s) : s[i] \in Digits

RECURSIVE int(_)
\* int(s) of a string of digits
int(s) ==
    IF Len(s) = 0 THEN 0
    ELSE 10 * int(SubSeq(s, 1, Len(s) - 1)) + DigitValue(s[Len(s)])

\* s[:n]
Prefix(s, n) == SubSeq(s, 1, IF Len(s) < n THEN Len(s) ELSE n)

\* Optional[list[str]] of get_birthdate
NoneList == [isList |-> FALSE, val |-> <<>>]
SomeList(l) == [isList |-> TRUE, val |-> l]

\* what get_birthdate may answer
BirthResponses ==
    { NoneList,
      SomeList(<<>>),
      SomeList(<< <<"1", "8", "1", "9", "-", "0", "5">> >>),
      SomeList(<< <<"8", "1", "4">> >>),
      SomeList(<< <<"-", "0", "4", "4", "3">>, <<"1", "8", "1", "9">> >>) }

(***************************************************************************)
(* The entity store.                                                       *)
(***************************************************************************)
Royal(wiki_id, name, birth_year) ==
    [wiki_id |-> wiki_id, name |-> name, birth_year |-> birth_year,
     parents |-> {}, children |-> {}]

EmptyGraph == [id \in {} |-> Royal(id, "", -1)]

\* the birth year taken from the last of the birth dates, not the first
BirthYearOfLast(birth_years) ==
    IF birth_years.isList /\ Len(birth_years.val) > 0
    THEN LET birth_year_str == birth_years.val[Len(birth_years.val)]
         IN  IF Len(birth_year_str) >= 4 /\ isdigit(Prefix(birth_year_str, 4))
             THEN int(Prefix(birth_year_str, 4))
             ELSE -1
    ELSE -1

\* the birth year add_royal takes from get_birthdate's answer
BirthYearOf(birth_years) ==
    IF birth_years.isList /\ Len(birth_years.val) > 0
    THEN LET birth_year_str == birth_years.val[1]
         IN  IF Len(birth_year_str) >= 4 /\ isdigit(Prefix(birth_year_str, 4))
             THEN int(Prefix(birth_year_str, 4))
             ELSE -1
    ELSE -1

add_royal_with_birth_year(g, wiki_id, name, birth_year) ==
    IF wiki_id \notin DOMAIN g
    THEN (wiki_id :> Royal(wiki_id, name, birth_year)) @@ g
    ELSE g

\* add_royal that makes the royal and does not store it
add_royal_not_stored(g, wiki_id, name, birth_years) == g

\* add_royal without its test for an id the graph holds
add_royal_overwriting(g, wiki_id, name, birth_years) ==
    (wiki_id :> Royal(wiki_id, name, BirthYearOf(birth_years))) @@ g

add_royal(g, wiki_id, name, birth_years) ==
    IF wiki_id \notin DOMAIN g
    THEN (wiki_id :> Royal(wiki_id, name, BirthYearOf(birth_years))) @@ g
    ELSE g

\* add_edge raises ValueError
add_edge_raises(g, parent_id, child_id) ==
    ~(parent_id \in DOMAIN g /\ child_id \in DOMAIN g)

\* add_edge without its second half
add_edge_one_way(g, parent_id, child_id) ==
    IF parent_id \in DOMAIN g /\ child_id \in DOMAIN g
    THEN [g EXCEPT ![parent_id].children = @ \cup {child_id}]
    ELSE g

\* add_edge that writes the half of the edge whose royal it finds
add_edge_found_half(g, parent_id, child_id) ==
    IF parent_id \in DOMAIN g /\ child_id \in DOMAIN g
    THEN LET g1 == [g EXCEPT ![parent_id].children = @ \cup {child_id}]
         IN  [g1 EXCEPT ![child_id].parents = @ \cup {parent_id}]
    ELSE IF parent_id \in DOMAIN g
    THEN [g EXCEPT ![parent_id].children = @ \cup {child_id}]
    ELSE IF child_id \in DOMAIN g
    THEN [g EXCEPT ![child_id].parents = @ \cup {parent_id}]
    ELSE g

\* add_edge that sets the two sets instead of adding to them
add_edge_replacing(g, parent_id, child_id) ==
    IF parent_id \in DOMAIN g /\ child_id \in DOMAIN g
    THEN LET g1 == [g EXCEPT ![parent_id].children = {child_id}]
         IN  [g1 EXCEPT ![child_id].parents = {parent_id}]
    ELSE g

add_edge(g, parent_id, child_id) ==
    IF parent_id \in DOMAIN g /\ child_id \in DOMAIN g
    THEN LET g1 == [g EXCEPT ![parent_id].children = @ \cup {child_id}]
         IN  [g1 EXCEPT ![child_id].parents = @ \cup {parent_id}]
    ELSE g

(***************************************************************************)
(* The knowledge source (WikiExtract).                                     *)
(***************************************************************************)
\* the ids the name search finds for a query, best match first
SearchTable ==
    [name \in RootNamePool |->
        CASE name = "George V" -> <<"Q1", "Q3">>
          [] name = "Victoria" -> <<"Q2">>
          [] OTHER -> <<>>]

get_wikidata_ids(query) == SearchTable[query]

\* the birth dates the knowledge source holds for each id
BirthTable ==
    [wiki_id \in Ids |->
        CASE wiki_id = "Q1" -> SomeList(<< <<"1", "8", "1", "9", "-", "0", "5">> >>)
          [] wiki_id = "Q2" -> SomeList(<<>>)
          [] OTHER -> SomeList(<< <<"-", "0", "4", "4", "3">>, <<"1", "8", "1", "9">> >>)]

get_birthdate(wiki_id) == BirthTable[wiki_id]

\* the first id found; the IndexError of [0] on no match gives None
get_wikidata_id(query) ==
    IF Len(get_wikidata_ids(query)) > 0 THEN get_wikidata_ids(query)[1]
    ELSE NoneId

\* the (id, name) tuples of the children / the parents of wiki_id
get_children(src, wiki_id) ==
    {<<e[2], Label(e[2])>> : e \in {x \in src : x[1] = wiki_id}}

get_parents(src, wiki_id) ==
    {<<e[1], Label(e[1])>> : e \in {x \in src : x[2] = wiki_id}}

\* the <<parent, child>> statements a knowledge source may hold: a chain from
\* Q1 to Q3, two royals each the parent of the other, a royal its own parent,
\* a cycle through all three
SourceStatements ==
    {<<"Q1", "Q2">>, <<"Q2", "Q3">>, <<"Q2", "Q1">>, <<"Q3", "Q3">>, <<"Q3", "Q1">>}

\* the knowledge sources of the model: every set of at most MaxSourceEdges
\* of these statements
Sources == {s \in SUBSET SourceStatements : Cardinality(s) <= MaxSourceEdges}

\* the orders in which a for loop may go through a set
Orders(S) ==
    {f \in [1..Cardinality(S) -> S] : \A x \in S : \E i \in DOMAIN f : f[i] = x}

(***************************************************************************)
(* The crawl: fill_graph and add_children_parents.                         *)
(***************************************************************************)
\* the store grows by more than SaveEvery royals between two checkpoints
SaveEvery == 100

\* the test that saves at the threshold itself
save_due_at_threshold(len_self_royals, count) == len_self_royals - count >= SaveEvery

\* len(self._royals) - counter > 100
save_due(len_self_royals, count) == len_self_royals - count > SaveEvery

\* save(): one more checkpoint, named by the number of royals
save(files, g) ==
    Append(files, [num_royals |-> Cardinality(DOMAIN g), graph |-> g])

\* the for loop's body without its test for None
seed_root_unchecked(g, queue, name) ==
    [g |-> add_royal(g, get_wikidata_id(name), name, NoneList),
     q |-> Append(queue, <<0, get_wikidata_id(name), name>>)]

\* the body of fill_graph's for loop for one root name
seed_root(g, queue, name) ==
    LET wiki_id == get_wikidata_id(name)
    IN  IF wiki_id # NoneId
        THEN [g |-> add_royal(g, wiki_id, name, get_birthdate(wiki_id)),
              q |-> Append(queue, <<0, wiki_id, name>>)]
        ELSE [g |-> g, q |-> queue]

\* the while loop without its test on the depth
within_depth_unbounded(curr_depth, depth_limit) == TRUE

\* the test made on the depth of the royal popped, not of its relatives
within_depth_of_popped(curr_depth, depth_limit) == curr_depth - 1 <= depth_limit

\* fill_graph's test on the depth of the relatives of the royal it popped
within_depth(curr_depth, depth_limit) == curr_depth <= depth_limit

RECURSIVE add_relatives(_, _, _, _, _, _)
\* one for loop of add_children_parents over the tuples infos in the order
\* given: (id, name) with base_graph None, (id, name, birth year) copied from
\* a base graph otherwise; st is [g, q, raised]
add_relatives(st, infos, curr_id, curr_depth, as_parents, from_base) ==
    IF infos = <<>> \/ st.raised # "none" THEN st
    ELSE LET royal_info == Head(infos)
             g1 == IF from_base
                   THEN add_royal_with_birth_year(st.g, royal_info[1], royal_info[2],
                                                  royal_info[3])
                   ELSE add_royal(st.g, royal_info[1], royal_info[2],
                                  get_birthdate(royal_info[1]))
             parent_id == IF as_parents THEN royal_info[1] ELSE curr_id
             child_id == IF as_parents THEN curr_id ELSE royal_info[1]
         IN  IF add_edge_raises(g1, parent_id, child_id)
             THEN [g |-> g1, q |-> st.q, raised |-> "ValueError"]
             ELSE add_relatives(
                    [g |-> add_edge(g1, parent_id, child_id),
                     q |-> Append(st.q, <<curr_depth, royal_info[1], royal_info[2]>>),
                     raised |-> "none"],
                    Tail(infos), curr_id, curr_depth, as_parents, from_base)

\* the for loops without their tests for None: a loop over None raises
add_children_parents_unchecked(g, queue, curr_id, curr_depth, parents_info, children_info, from_base) ==
    LET st0 == [g |-> g, q |-> queue, raised |-> "none"]
        st1 == IF parents_info.isList
               THEN add_relatives(st0, parents_info.val, curr_id, curr_depth, TRUE,
                                  from_base)
               ELSE [st0 EXCEPT !.raised = "TypeError"]
    IN  IF st1.raised # "none" THEN st1
        ELSE IF children_info.isList
        THEN add_relatives(st1, children_info.val, curr_id, curr_depth, FALSE, from_base)
        ELSE [st1 EXCEPT !.raised = "TypeError"]

\* add_children_parents: the parents if parents_info is not None, then the
\* children if children_info is not None
add_children_parents(g, queue, curr_id, curr_depth, parents_info, children_info, from_base) ==
    LET st0 == [g |-> g, q |-> queue, raised |-> "none"]
        st1 == IF parents_info.isList
               THEN add_relatives(st0, parents_info.val, curr_id, curr_depth, TRUE,
                                  from_base)
               ELSE st0
    IN  IF children_info.isList
        THEN add_relatives(st1, children_info.val, curr_id, curr_depth, FALSE, from_base)
        ELSE st1

\* what a fetch of add_children_parents may answer for the tuples the
\* knowledge source holds: None when the source has no data for the request,
\* else the tuples, in any order a for loop may take them
Fetched(no, fn, wiki_id, tuples) ==
    IF <<fn, wiki_id>> \in no THEN {NoneList} ELSE {SomeList(o) : o \in Orders(tuples)}

\* royals_queue.pop() in place of royals_queue.pop(0)
royals_queue_pop_last(queue) ==
    [entry |-> queue[Len(queue)], rest |-> SubSeq(queue, 1, Len(queue) - 1)]

\* royals_queue.pop(0)
royals_queue_pop(queue) == [entry |-> Head(queue), rest |-> Tail(queue)]

\* the tuples of the parents taken for the children
base_children_from_parents(base_graph, curr_id) ==
    {<<p, base_graph[p].name, base_graph[p].birth_year>> :
        p \in base_graph[curr_id].parents}

\* the (id, name, birth year) tuples add_children_parents copies from base_graph
base_children(base_graph, curr_id) ==
    {<<c, base_graph[c].name, base_graph[c].birth_year>> :
        c \in base_graph[curr_id].children}

base_parents(base_graph, curr_id) ==
    {<<p, base_graph[p].name, base_graph[p].birth_year>> :
        p \in base_graph[curr_id].parents}

\* a file holding all of pickle.dump(graph), and a file that stops short of it
PickleOf(g) == [complete |-> TRUE, graph |-> g]
Truncated == [complete |-> FALSE, graph |-> EmptyGraph]

\* the disk: the file 'graph' of the working directory (<<>> when there is
\* none) and the files of graph_files/ by name
EmptyDisk == [graph |-> <<>>, graph_files |-> <<>>]

\* no race has been reported, no fetch has been made
NoRace == [shown |-> FALSE, found |-> FALSE, time_breadth |-> 0, time_depth |-> 0,
           algo_index |-> 0, path |-> <<>>]
NoValue == [isNone |-> TRUE, items |-> <<>>]
NoFetch == [request |-> <<"", "">>, depth |-> 0, issued |-> 0, retry_after |-> <<>>,
            has_retry_after |-> TRUE, sleeps |-> 0, slept |-> 0, status |-> "none",
            raised |-> "none", value |-> NoValue]

\* a call: the function, the id and the name it was given (for add_edge the
\* parent id and the child id), what it raised
Call(fn, id, name, raised) == [fn |-> fn, id |-> id, name |-> name, raised |-> raised]

\* self.query_royal_ids = [None, None], self.current_mode_method = None
NoQuery == <<NoneId, NoneId>>
NoMethod == "None"

\* a pygame_menu.Menu: its title, the callbacks of its buttons and selector,
\* the method its button for self.current_mode_method was given, the ids its
\* selector offers
Menu(title, callbacks, method, items) ==
    [title |-> title, callbacks |-> callbacks, method |-> method, items |-> items]

\* no menu has been made
NoMenu == Menu("", {}, NoMethod, {})

\* UserInterface.__init__ has set its attributes, no mainloop runs
NoSelection ==
    /\ query_royal_ids = NoQuery
    /\ current_mode_method = NoMethod
    /\ menu = NoMenu

\* no crawl that queues an id once has been made
NoOnce == [g |-> EmptyGraph, q |-> <<>>, seen |-> {}, todo |-> {}, skipped |-> 0]

\* no search has returned
NoResult == [returned |-> FALSE, found |-> FALSE, path |-> <<>>, raised |-> "none"]

NoCrawlNoSearch ==
    /\ op = Call("__init__", "", "", "none")
    /\ pc = "idle"
    /\ P40 = {}
    /\ root_names = {}
    /\ roots_todo = {}
    /\ max_depth = 0
    /\ royals_queue = <<>>
    /\ royals_added = {}
    /\ counter = 0
    /\ graph_files = <<>>
    /\ family = EmptyGraph
    /\ family_depth = 0
    /\ family_id = ""
    /\ family_queue = <<>>
    /\ query_ids = <<"", "">>
    /\ frontier = <<>>
    /\ visited = {}
    /\ breadth = NoResult
    /\ depth = NoResult
    /\ birthdate = NoneList
    /\ disk = EmptyDisk
    /\ now = 0
    /\ len_royals = 0
    /\ race = NoRace
    /\ fetch = NoFetch
    /\ no_data = {}
    /\ expanded = {}
    /\ once = NoOnce
    /\ NoSelection

Init ==
    /\ royals = EmptyGraph
    /\ NoCrawlNoSearch

\* a caller adds a royal; get_birthdate answers birth_years
AddRoyal(wiki_id, name, birth_years) ==
    /\ pc = "idle"
    /\ royals' = add_royal(royals, wiki_id, name, birth_years)
    /\ op' = Call("add_royal", wiki_id, name, "none")
    /\ birthdate' = IF wiki_id \notin DOMAIN royals THEN birth_years ELSE birthdate
    /\ UNCHANGED <<pc, crawlVars, familyVars, searchVars, ioVars>>

AddRoyalWithBirthYear(wiki_id, name, birth_year) ==
    /\ pc = "idle"
    /\ UNCHANGED <<birthdate, ioVars>>
    /\ royals' = add_royal_with_birth_year(royals, wiki_id, name, birth_year)
    /\ op' = Call("add_royal_with_birth_year", wiki_id, name, "none")
    /\ UNCHANGED <<pc, crawlVars, familyVars, searchVars>>

\* a caller adds an edge, keeping add_edge's precondition parent_id != child_id
AddEdge(parent_id, child_id) ==
    /\ pc = "idle"
    /\ UNCHANGED <<birthdate, ioVars>>
    /\ parent_id # child_id
    /\ royals' = add_edge(royals, parent_id, child_id)
    /\ op' = Call("add_edge", parent_id, child_id,
                  IF add_edge_raises(royals, parent_id, child_id)
                  THEN "ValueError" ELSE "none")
    /\ UNCHANGED <<pc, crawlVars, familyVars, searchVars>>

\* create_and_save_graph: fill_graph on a new graph
FillGraph(names, depth_limit, src, none_for) ==
    /\ pc = "idle"
    /\ UNCHANGED <<birthdate, ioVars>>
    /\ op.fn = "__init__"
    /\ pc' = "fill"
    /\ op' = Call("fill_graph", "", "", "none")
    /\ P40' = src
    /\ no_data' = none_for
    /\ root_names' = names
    /\ roots_todo' = names
    /\ max_depth' = depth_limit
    /\ royals_queue' = <<>>
    /\ royals_added' = {}
    /\ counter' = 0
    /\ UNCHANGED <<royals, graph_files, familyVars, searchVars>>

\* one turn of fill_graph's for loop, for any name it has yet to take
SeedRoot(name) ==
    /\ pc = "fill"
    /\ UNCHANGED <<birthdate, ioVars>>
    /\ name \in roots_todo
    /\ LET r == seed_root(royals, royals_queue, name)
       IN  /\ royals' = r.g
           /\ royals_queue' = r.q
    /\ roots_todo' = roots_todo \ {name}
    /\ op' = Call("get_wikidata_id", get_wikidata_id(name), name, "none")
    /\ UNCHANGED <<pc, P40, no_data, root_names, max_depth, royals_added, counter,
                   graph_files, familyVars, searchVars>>

\* one turn of fill_graph's while loop
Expand ==
    /\ pc = "fill"
    /\ UNCHANGED <<birthdate, ioVars>>
    /\ roots_todo = {}
    /\ royals_queue # <<>>
    /\ LET num_royals == Cardinality(DOMAIN royals)
           due == save_due(num_royals, counter)
           popped == royals_queue_pop(royals_queue)
           curr_depth == popped.entry[1] + 1
           curr_id == popped.entry[2]
           rest == popped.rest
       IN  /\ graph_files' = IF due THEN save(graph_files, royals) ELSE graph_files
           /\ counter' = IF due THEN num_royals ELSE counter
           /\ IF within_depth(curr_depth, max_depth)
              THEN \E children_info \in Fetched(no_data, "get_children", curr_id,
                                                 get_children(P40, curr_id)),
                      parents_info \in Fetched(no_data, "get_parents", curr_id,
                                                get_parents(P40, curr_id)) :
                      LET r == add_children_parents(royals, rest, curr_id, curr_depth,
                                                    parents_info, children_info, FALSE)
                      IN  /\ royals' = r.g
                          /\ royals_queue' = r.q
                          /\ royals_added' = IF r.raised = "none"
                                             THEN royals_added \cup {curr_id}
                                             ELSE royals_added
                          /\ op' = Call("add_children_parents", "", "", r.raised)
                          /\ pc' = IF r.raised = "none" THEN "fill" ELSE "raised"
              ELSE /\ royals_queue' = rest
                   /\ op' = Call("pop", "", "", "none")
                   /\ UNCHANGED <<royals, royals_added, pc>>
    /\ UNCHANGED <<P40, no_data, root_names, roots_todo, max_depth, familyVars, searchVars>>

\* the queue is empty: fill_graph's last save
Finish ==
    /\ pc = "fill"
    /\ UNCHANGED <<birthdate, ioVars>>
    /\ roots_todo = {}
    /\ royals_queue = <<>>
    /\ graph_files' = save(graph_files, royals)
    /\ pc' = "done"
    /\ op' = Call("save", "", "", "none")
    /\ UNCHANGED <<royals, P40, no_data, root_names, roots_todo, max_depth, royals_queue,
                   royals_added, counter, familyVars, searchVars>>

\* visualize_family up to its while loop: the root royal copied into a new graph
VisualizeFamily(wiki_id, depth_limit) ==
    /\ pc = "idle"
    /\ UNCHANGED <<birthdate, ioVars>>
    /\ wiki_id \in DOMAIN royals
    /\ family' = add_royal_with_birth_year(EmptyGraph, wiki_id, royals[wiki_id].name,
                                           royals[wiki_id].birth_year)
    /\ family_queue' = <<<<0, wiki_id, royals[wiki_id].name>>>>
    /\ family_depth' = depth_limit
    /\ family_id' = wiki_id
    /\ pc' = "family"
    /\ op' = Call("visualize_family", "", "", "none")
    /\ UNCHANGED <<royals, crawlVars, searchVars>>

\* one turn of visualize_family's while loop
FamilyExpand ==
    /\ pc = "family"
    /\ UNCHANGED <<birthdate, ioVars>>
    /\ family_queue # <<>>
    /\ LET popped == royals_queue_pop(family_queue)
           curr_depth == popped.entry[1] + 1
           curr_id == popped.entry[2]
           rest == popped.rest
       IN  IF within_depth(curr_depth, family_depth)
           THEN \E parents_info \in Orders(base_parents(royals, curr_id)),
                   children_info \in Orders(base_children(royals, curr_id)) :
                   LET r == add_children_parents(family, rest, curr_id, curr_depth,
                                                 SomeList(parents_info),
                                                 SomeList(children_info), TRUE)
                   IN  /\ family' = r.g
                       /\ family_queue' = r.q
                       /\ op' = Call("add_children_parents", "", "", r.raised)
                       /\ pc' = IF r.raised = "none" THEN "family" ELSE "raised"
           ELSE /\ family_queue' = rest
                /\ op' = Call("pop", "", "", "none")
                /\ UNCHANGED <<family, pc>>
    /\ UNCHANGED <<royals, crawlVars, family_depth, family_id, searchVars>>

\* the queue is empty: the family graph is drawn, and the caller has the
\* graph it called visualize_family on
FamilyShown ==
    /\ pc = "family"
    /\ UNCHANGED <<birthdate, ioVars>>
    /\ family_queue = <<>>
    /\ pc' = "idle"
    /\ op' = Call("visualize", "", "", "none")
    /\ UNCHANGED <<royals, crawlVars, familyVars, searchVars>>

(***************************************************************************)
(* The crawl on its own, over knowledge sources that have no data for some *)
(* requests, followed by the same crawl with a visited-on-enqueue set: an  *)
(* id is put on the queue the first time it is met and never again, the    *)
(* royal and the edge are added as fill_graph adds them.                   *)
(***************************************************************************)
\* the requests a knowledge source may have no data for: none, or the
\* children of Q1, the parents of Q2 and both for Q3
NoDataSets ==
    { {},
      {<<"get_children", "Q1">>, <<"get_parents", "Q2">>,
       <<"get_children", "Q3">>, <<"get_parents", "Q3">>} }

\* the for loop's body for one root name, with the visited-on-enqueue set
seed_root_once(st, name) ==
    LET wiki_id == get_wikidata_id(name)
    IN  IF wiki_id = NoneId THEN st
        ELSE [st EXCEPT
                !.g = add_royal(@, wiki_id, name, get_birthdate(wiki_id)),
                !.q = IF wiki_id \in st.seen THEN @ ELSE Append(@, <<0, wiki_id, name>>),
                !.seen = @ \cup {wiki_id},
                !.skipped = IF wiki_id \in st.seen THEN @ + 1 ELSE @]

RECURSIVE add_relatives_once_no_edge(_, _, _, _, _)
\* the edge left out with the queue entry
add_relatives_once_no_edge(st, infos, curr_id, curr_depth, as_parents) ==
    IF infos = <<>> THEN st
    ELSE LET royal_info == Head(infos)
             g1 == add_royal(st.g, royal_info[1], royal_info[2],
                             get_birthdate(royal_info[1]))
             parent_id == IF as_parents THEN royal_info[1] ELSE curr_id
             child_id == IF as_parents THEN curr_id ELSE royal_info[1]
             queued == royal_info[1] \in st.seen
         IN  add_relatives_once_no_edge(
                [st EXCEPT
                    !.g = IF queued THEN g1 ELSE add_edge(g1, parent_id, child_id),
                    !.q = IF queued THEN @
                          ELSE Append(@, <<curr_depth, royal_info[1], royal_info[2]>>),
                    !.seen = @ \cup {royal_info[1]},
                    !.skipped = IF queued THEN @ + 1 ELSE @],
                Tail(infos), curr_id, curr_depth, as_parents)

RECURSIVE add_relatives_once(_, _, _, _, _)
\* one for loop of add_children_parents with the visited-on-enqueue set: the
\* royal and the edge are added, the queue entry only for an id not queued
\* before
add_relatives_once(st, infos, curr_id, curr_depth, as_parents) ==
    IF infos = <<>> THEN st
    ELSE LET royal_info == Head(infos)
             g1 == add_royal(st.g, royal_info[1], royal_info[2],
                             get_birthdate(royal_info[1]))
             parent_id == IF as_parents THEN royal_info[1] ELSE curr_id
             child_id == IF as_parents THEN curr_id ELSE royal_info[1]
             queued == royal_info[1] \in st.seen
         IN  add_relatives_once(
                [st EXCEPT
                    !.g = add_edge(g1, parent_id, child_id),
                    !.q = IF queued THEN @
                          ELSE Append(@, <<curr_depth, royal_info[1], royal_info[2]>>),
                    !.seen = @ \cup {royal_info[1]},
                    !.skipped = IF queued THEN @ + 1 ELSE @],
                Tail(infos), curr_id, curr_depth, as_parents)

\* add_children_parents with the visited-on-enqueue set
add_children_parents_once(st, curr_id, curr_depth, parents_info, children_info) ==
    LET st1 == IF parents_info.isList
               THEN add_relatives_once(st, parents_info.val, curr_id, curr_depth, TRUE)
               ELSE st
    IN  IF children_info.isList
        THEN add_relatives_once(st1, children_info.val, curr_id, curr_depth, FALSE)
        ELSE st1

\* what the crawl with the set leaves alone
notOnceVars ==
    <<royals, crawlVars, familyVars, searchVars, birthdate, disk, now, len_royals,
      race, fetch, uiVars>>

\* fill_graph has ended: the same roots, depth and knowledge source are
\* crawled again, on a new graph, with the visited-on-enqueue set
CrawlOnce ==
    /\ pc = "done"
    /\ pc' = "once"
    /\ once' = [NoOnce EXCEPT !.todo = root_names]
    /\ op' = Call("fill_graph", "", "", "none")
    /\ UNCHANGED notOnceVars

SeedRootOnce(name) ==
    /\ pc = "once"
    /\ name \in once.todo
    /\ once' = [seed_root_once(once, name) EXCEPT !.todo = @ \ {name}]
    /\ op' = Call("get_wikidata_id", get_wikidata_id(name), name, "none")
    /\ UNCHANGED <<pc, notOnceVars>>

ExpandOnce ==
    /\ pc = "once"
    /\ once.todo = {}
    /\ once.q # <<>>
    /\ LET popped == royals_queue_pop(once.q)
           curr_depth == popped.entry[1] + 1
           curr_id == popped.entry[2]
           st == [once EXCEPT !.q = popped.rest]
       IN  IF within_depth(curr_depth, max_depth)
           THEN /\ \E children_info \in Fetched(no_data, "get_children", curr_id,
                                                get_children(P40, curr_id)),
                      parents_info \in Fetched(no_data, "get_parents", curr_id,
                                               get_parents(P40, curr_id)) :
                      once' = add_children_parents_once(st, curr_id, curr_depth,
                                                        parents_info, children_info)
                /\ op' = Call("add_children_parents", "", "", "none")
           ELSE /\ once' = st
                /\ op' = Call("pop", "", "", "none")
    /\ UNCHANGED <<pc, notOnceVars>>

\* the queue of the second crawl is empty: both graphs are at hand
FinishOnce ==
    /\ pc = "once"
    /\ once.todo = {}
    /\ once.q = <<>>
    /\ pc' = "compared"
    /\ op' = Call("save", "", "", "none")
    /\ UNCHANGED <<once, notOnceVars>>

CrawlNext ==
    \/ \E names \in SUBSET RootNamePool, depth_limit \in 0..MaxDepth, src \in Sources,
          none_for \in NoDataSets :
          FillGraph(names, depth_limit, src, none_for)
    \/ \E name \in RootNamePool : SeedRoot(name)
    \/ Expand
    \/ Finish
    \/ CrawlOnce
    \/ \E name \in RootNamePool : SeedRootOnce(name)
    \/ ExpandOnce
    \/ FinishOnce

CrawlSpec == Init /\ [][CrawlNext]_vars

\* knowledge sources with a royal its own parent, two royals each the parent
\* of the other, a cycle through three royals, and one with no cycle
CyclicSources ==
    { {<<"Q3", "Q3">>, <<"Q3", "Q1">>},
      {<<"Q1", "Q2">>, <<"Q2", "Q1">>},
      {<<"Q1", "Q2">>, <<"Q2", "Q3">>, <<"Q3", "Q1">>},
      {<<"Q1", "Q2">>, <<"Q2", "Q3">>} }

\* one turn of fill_graph's for loop or of its while loop, or its last save
FillGraphStep ==
    \/ \E name \in RootNamePool : SeedRoot(name)
    \/ Expand
    \/ Finish

CrawlFairNext ==
    \/ \E names \in SUBSET RootNamePool, depth_limit \in 0..MaxDepth,
          src \in CyclicSources :
          FillGraph(names, depth_limit, src, {})
    \/ FillGraphStep

\* fill_graph runs on one thread that nothing stops: it takes the next turn
\* of the loop it is in whenever there is one, and every fetch returns
CrawlFairSpec == Init /\ [][CrawlFairNext]_vars /\ WF_vars(FillGraphStep)

(***************************************************************************)
(* fill_graph followed by the size of the graph only: what its checkpoints *)
(* depend on.  A root or a batch of relatives adds so many new royals and  *)
(* so many queue entries; which royals they are is left out.               *)
(***************************************************************************)
\* largest len(self._royals), and longest royals_queue, of a crawl
MaxRoyals == 202
MaxQueue == 102

\* the numbers of new royals one call of add_children_parents may add
Growths == {0, SaveEvery - 1, SaveEvery, SaveEvery + 1}

\* save() of a graph of num_royals royals: the file is named by that number
save_size(files, num_royals) == Append(files, [num_royals |-> num_royals])

\* the last save() left out when the newest checkpoint has the same size
final_save_unless_saved(files, num_royals) ==
    IF files # <<>> /\ files[Len(files)].num_royals = num_royals
    THEN files
    ELSE save_size(files, num_royals)

\* self.save() once the while loop has ended
final_save(files, num_royals) == save_size(files, num_royals)

\* n queue entries of one depth
Entries(n, curr_depth) == [i \in 1..n |-> <<curr_depth, "", "">>]

SizeInit ==
    /\ royals = EmptyGraph
    /\ NoCrawlNoSearch

\* what the crawl followed by size leaves alone
notSizeVars ==
    <<royals, P40, no_data, royals_added, familyVars, searchVars, birthdate, disk, now,
      race, fetch, once,
      uiVars>>

\* fill_graph(names, depth_limit) on a new graph, up to its for loop
FillGraphSize(names, depth_limit) ==
    /\ pc = "idle"
    /\ pc' = "fill"
    /\ op' = Call("fill_graph", "", "", "none")
    /\ root_names' = names
    /\ roots_todo' = names
    /\ max_depth' = depth_limit
    /\ royals_queue' = <<>>
    /\ counter' = 0
    /\ len_royals' = 0
    /\ UNCHANGED <<graph_files, notSizeVars>>

\* one turn of the for loop: a name that resolves adds a royal unless its id
\* is the id of a name taken before (fresh), and always a queue entry
SeedRootSize(name, fresh) ==
    /\ pc = "fill"
    /\ name \in roots_todo
    /\ len_royals = 0 => fresh
    /\ IF get_wikidata_id(name) # NoneId
       THEN /\ len_royals' = len_royals + (IF fresh THEN 1 ELSE 0)
            /\ royals_queue' = royals_queue \o Entries(1, 0)
       ELSE UNCHANGED <<len_royals, royals_queue>>
    /\ roots_todo' = roots_todo \ {name}
    /\ op' = Call("get_wikidata_id", get_wikidata_id(name), name, "none")
    /\ UNCHANGED <<pc, root_names, max_depth, counter, graph_files, notSizeVars>>

\* one turn of the while loop: the relatives fetched are new_royals royals
\* the graph does not hold and known_royals it holds
ExpandSize(new_royals, known_royals) ==
    /\ pc = "fill"
    /\ roots_todo = {}
    /\ royals_queue # <<>>
    /\ LET due == save_due(len_royals, counter)
           curr_depth == Head(royals_queue)[1] + 1
           rest == Tail(royals_queue)
       IN  /\ graph_files' = IF due THEN save_size(graph_files, len_royals)
                                    ELSE graph_files
           /\ counter' = IF due THEN len_royals ELSE counter
           /\ IF within_depth(curr_depth, max_depth)
              THEN /\ len_royals + new_royals <= MaxRoyals
                   /\ Len(rest) + new_royals + known_royals <= MaxQueue
                   /\ len_royals' = len_royals + new_royals
                   /\ royals_queue' =
                         rest \o Entries(new_royals + known_royals, curr_depth)
                   /\ op' = Call("add_children_parents", "", "", "none")
              ELSE /\ new_royals = 0
                   /\ known_royals = 0
                   /\ royals_queue' = rest
                   /\ op' = Call("pop", "", "", "none")
                   /\ UNCHANGED len_royals
    /\ UNCHANGED <<pc, root_names, roots_todo, max_depth, notSizeVars>>

\* the queue is empty: fill_graph's last save
FinishSize ==
    /\ pc = "fill"
    /\ roots_todo = {}
    /\ royals_queue = <<>>
    /\ graph_files' = final_save(graph_files, len_royals)
    /\ pc' = "done"
    /\ op' = Call("save", "", "", "none")
    /\ UNCHANGED <<root_names, roots_todo, max_depth, royals_queue, counter,
                   len_royals, notSizeVars>>

SizeNext ==
    \/ \E names \in SUBSET RootNamePool, depth_limit \in 0..MaxDepth :
          FillGraphSize(names, depth_limit)
    \/ \E name \in RootNamePool, fresh \in BOOLEAN : SeedRootSize(name, fresh)
    \/ \E new_royals \in Growths, known_royals \in {0, 1} :
          ExpandSize(new_royals, known_royals)
    \/ FinishSize

SizeSpec == SizeInit /\ [][SizeNext]_vars

(***************************************************************************)
(* The user interface.  A callback runs inside the mainloop of the menu    *)
(* that holds its button and goes on until it starts the mainloop of the   *)
(* menu it makes; no menu is ever disabled, so no mainloop returns and the *)
(* buttons that can be pressed are those of the menu made last.  u is the  *)
(* user interface: query_royal_ids, current_mode_method, the menu whose    *)
(* mainloop runs, the last call made (op) and what was raised.             *)
(***************************************************************************)
\* the names a user types into the text input
TypedNames == RootNamePool

Raise(u, fn, exception) ==
    [u EXCEPT !.raised = exception, !.op = Call(fn, "", "", exception)]

\* start_main_menu up to main_menu.mainloop
start_main_menu(u) ==
    [u EXCEPT !.query_royal_ids = NoQuery,
              !.current_mode_method = NoMethod,
              !.menu = Menu("main_menu", {"run_race_pathfinders", "run_show_family"},
                            NoMethod, {}),
              !.op = Call("start_main_menu", "", "", "none")]

\* royal_selection up to secondary_menu.mainloop
royal_selection(u) ==
    IF ~(u.query_royal_ids[1] = NoneId /\ u.query_royal_ids[2] = NoneId)
       /\ u.query_royal_ids[2] # NoneId
    THEN Raise(u, "royal_selection", "AssertionError")
    ELSE [u EXCEPT
            !.menu = Menu("royal_selection",
                          {"royal_selection_callback", "current_mode_method",
                           "start_main_menu"},
                          u.current_mode_method, {}),
            !.op = Call("royal_selection", "", "", "none")]

\* run_race_pathfinders up to the mainloop of the selection screen, or, with
\* both royals chosen, through the two searches to the mainloop of the
\* results screen
run_race_pathfinders(u, g) ==
    LET u1 == [u EXCEPT !.current_mode_method = "run_race_pathfinders"]
        id1 == u1.query_royal_ids[1]
        id2 == u1.query_royal_ids[2]
    IN  IF NoneId \in {id1, id2} THEN royal_selection(u1)
        ELSE IF id1 \notin DOMAIN g \/ id2 \notin DOMAIN g
        THEN Raise(u1, "get_royal", "ValueError")
        ELSE [u1 EXCEPT
                !.menu = Menu("race_results", {"start_main_menu"}, NoMethod, {}),
                !.op = Call("connected_breadth", id1, id2, "none")]

\* run_show_family up to the mainloop of the selection screen or of the
\* screen that asks for the depth
run_show_family(u, g) ==
    LET u1 == [u EXCEPT !.current_mode_method = "run_show_family"]
        id1 == u1.query_royal_ids[1]
    IN  IF id1 = NoneId THEN royal_selection(u1)
        ELSE IF id1 \notin DOMAIN g THEN Raise(u1, "get_royal", "ValueError")
        ELSE [u1 EXCEPT
                !.menu = Menu("max_depth", {"show_family_callback", "start_main_menu"},
                              NoMethod, {}),
                !.op = Call("run_show_family", id1, "", "none")]

\* a call of the bound method a button or self.current_mode_method holds
call_method(u, g, method) ==
    CASE method = "run_race_pathfinders" -> run_race_pathfinders(u, g)
      [] method = "run_show_family" -> run_show_family(u, g)
      [] OTHER -> Raise(u, "current_mode_method", "TypeError")

\* no_ids_found_message up to secondary_menu.mainloop
no_ids_found_message(u) ==
    [u EXCEPT !.menu = Menu("Invalid Search Input", {"current_mode_method"},
                            u.current_mode_method, {}),
              !.op = Call("no_ids_found_message", "", "", "none")]

\* set_query_royal_id without its test for the royal chosen first
set_query_royal_id_any(u, g, wiki_id) ==
    IF u.query_royal_ids[1] = NoneId
    THEN IF u.query_royal_ids[2] # NoneId
         THEN Raise(u, "set_query_royal_id", "AssertionError")
         ELSE LET u1 == [u EXCEPT !.query_royal_ids[1] = wiki_id]
              IN  call_method(u1, g, u1.current_mode_method)
    ELSE IF u.query_royal_ids[2] # NoneId
         THEN Raise(u, "set_query_royal_id", "AssertionError")
         ELSE LET u1 == [u EXCEPT !.query_royal_ids[2] = wiki_id]
              IN  call_method(u1, g, u1.current_mode_method)

\* set_query_royal_id; the mainloop of no_ids_found_message does not return
set_query_royal_id(u, g, wiki_id) ==
    IF u.query_royal_ids[1] = NoneId
    THEN IF u.query_royal_ids[2] # NoneId
         THEN Raise(u, "set_query_royal_id", "AssertionError")
         ELSE LET u1 == [u EXCEPT !.query_royal_ids[1] = wiki_id]
              IN  call_method(u1, g, u1.current_mode_method)
    ELSE IF u.query_royal_ids[1] # wiki_id
    THEN IF u.query_royal_ids[2] # NoneId
         THEN Raise(u, "set_query_royal_id", "AssertionError")
         ELSE LET u1 == [u EXCEPT !.query_royal_ids[2] = wiki_id]
              IN  call_method(u1, g, u1.current_mode_method)
    ELSE no_ids_found_message(u)

\* pick_royal_by_birth up to secondary_menu.mainloop
pick_royal_by_birth(u, wiki_ids_for_name) ==
    [u EXCEPT !.menu = Menu("pick_royal_by_birth", {"set_query_royal_id"}, NoMethod,
                            wiki_ids_for_name),
              !.op = Call("pick_royal_by_birth", "", "", "none")]

\* royal_selection_callback for the name in the text input
royal_selection_callback(u, g, name) ==
    LET wiki_ids_in_graph == {id \in DOMAIN g : g[id].name = name}
    IN  IF wiki_ids_in_graph = {} THEN no_ids_found_message(u)
        ELSE IF Cardinality(wiki_ids_in_graph) = 1
        THEN set_query_royal_id(u, g, CHOOSE id \in wiki_ids_in_graph : TRUE)
        ELSE pick_royal_by_birth(u, wiki_ids_in_graph)

\* show_family_callback up to the mainloop of its results screen
show_family_callback(u, g, depth_limit) ==
    LET id1 == u.query_royal_ids[1]
    IN  IF id1 = NoneId THEN Raise(u, "show_family_callback", "AssertionError")
        ELSE IF id1 \notin DOMAIN g THEN Raise(u, "get_royal", "ValueError")
        ELSE [u EXCEPT
                !.menu = Menu("family_results", {"start_main_menu"}, NoMethod, {}),
                !.op = Call("visualize_family", id1, "", "none")]

\* the user interface as it is
Current ==
    [query_royal_ids |-> query_royal_ids, current_mode_method |-> current_mode_method,
     menu |-> menu, op |-> op, raised |-> "none"]

\* what a callback leaves alone
notMenuVars ==
    <<royals, crawlVars, familyVars, frontier, visited, breadth, depth, expanded,
      birthdate, disk, now, len_royals, race, fetch, once>>

\* a callback has led to u: its menu is shown (its mainloop runs), or an
\* exception ends the program; the ids handed to the searches are kept
Shown(u) ==
    /\ query_royal_ids' = u.query_royal_ids
    /\ current_mode_method' = u.current_mode_method
    /\ menu' = u.menu
    /\ op' = u.op
    /\ pc' = IF u.raised = "none" THEN "menu" ELSE "raised"
    /\ query_ids' = IF u.op.fn = "connected_breadth" THEN <<u.op.id, u.op.name>>
                    ELSE query_ids
    /\ UNCHANGED notMenuVars

(***************************************************************************)
(* The checkpoint store: save() step by step, load(), and the start of the *)
(* user interface.                                                         *)
(***************************************************************************)
\* last second of the clock
MaxClock == 1

\* graph_files/{date_time}_RoyalsGraph_{num_royals}royals
FileName(date_time, g) == <<date_time, Cardinality(DOMAIN g)>>

\* open(name, 'wb'): the file is made, or emptied if there is one of that name
save_open(d, date_time, g) ==
    [d EXCEPT !.graph_files = (FileName(date_time, g) :> Truncated) @@ @]

\* pickle.dump(self, file), and the file closed as save() returns
save_dump(d, date_time, g) ==
    [d EXCEPT !.graph_files = (FileName(date_time, g) :> PickleOf(g)) @@ @]

\* load() that answers an empty graph when it cannot read one
load_or_empty(d) ==
    IF d.graph = <<>> \/ ~d.graph[1].complete
    THEN [raised |-> "none", graph |-> <<EmptyGraph>>]
    ELSE [raised |-> "none", graph |-> <<d.graph[1].graph>>]

\* load(): the file 'graph' unpickled; graph is <<>> when nothing is returned
load(d) ==
    IF d.graph = <<>> THEN [raised |-> "ValueError", graph |-> <<>>]
    ELSE IF ~d.graph[1].complete THEN [raised |-> "UnpicklingError", graph |-> <<>>]
    ELSE [raised |-> "none", graph |-> <<d.graph[1].graph>>]

\* the graphs a process may hold when it saves
SavedStores ==
    { EmptyGraph,
      add_royal_with_birth_year(EmptyGraph, "Q1", "Anne", 1819),
      add_edge(add_royal_with_birth_year(
                   add_royal_with_birth_year(EmptyGraph, "Q1", "Anne", 1819),
                   "Q2", "Bob", -1), "Q1", "Q2") }

\* the working directory at the start: no file 'graph', one that stops short
\* of a pickle, or the pickle of a graph; graph_files/ is empty
InitialDisks ==
    {[EmptyDisk EXCEPT !.graph = f] :
        f \in {<<>>, <<Truncated>>} \cup {<<PickleOf(g)>> : g \in SavedStores}}

CheckpointInit ==
    /\ royals \in SavedStores
    /\ op = Call("__init__", "", "", "none")
    /\ pc = "idle"
    /\ disk \in InitialDisks
    /\ now = 0
    /\ P40 = {} /\ root_names = {} /\ roots_todo = {} /\ max_depth = 0
    /\ royals_queue = <<>> /\ royals_added = {} /\ counter = 0
    /\ graph_files = <<>>
    /\ family = EmptyGraph /\ family_depth = 0 /\ family_id = "" /\ family_queue = <<>>
    /\ query_ids = <<"", "">> /\ frontier = <<>> /\ visited = {}
    /\ breadth = NoResult /\ depth = NoResult
    /\ birthdate = NoneList /\ len_royals = 0 /\ race = NoRace /\ fetch = NoFetch
    /\ no_data = {} /\ expanded = {} /\ once = NoOnce
    /\ NoSelection

\* what the checkpoint store leaves alone
notCheckpointVars ==
    <<crawlVars, familyVars, searchVars, birthdate, len_royals, race, fetch, once,
      uiVars>>

\* the clock goes on; the name of a save under way was made before
Tick ==
    /\ pc # "save"
    /\ now < MaxClock
    /\ now' = now + 1
    /\ UNCHANGED <<royals, op, pc, disk, notCheckpointVars>>

\* save() up to and with open(..., 'wb')
SaveOpen ==
    /\ pc = "idle"
    /\ disk' = save_open(disk, now, royals)
    /\ pc' = "save"
    /\ op' = Call("open", "", "", "none")
    /\ UNCHANGED <<royals, now, notCheckpointVars>>

\* save() from pickle.dump to its return
SaveDump ==
    /\ pc = "save"
    /\ disk' = save_dump(disk, now, royals)
    /\ pc' = "idle"
    /\ op' = Call("save", "", "", "none")
    /\ UNCHANGED <<royals, now, notCheckpointVars>>

\* the process ends between open and the end of pickle.dump
Crash ==
    /\ pc = "save"
    /\ pc' = "crashed"
    /\ op' = Call("save", "", "", "killed")
    /\ UNCHANGED <<royals, disk, now, notCheckpointVars>>

\* UserInterface.__init__: self.graph = RoyalsGraph.load(), run after a
\* process that held a graph has saved it, has ended, or has done neither
UserInterfaceInit ==
    /\ pc \in {"idle", "crashed"}
    /\ LET r == load(disk)
       IN  /\ op' = Call("load", "", "", r.raised)
           /\ pc' = IF r.raised = "none" THEN "loaded" ELSE "raised"
           /\ royals' = IF r.raised = "none" THEN r.graph[1] ELSE royals
    /\ UNCHANGED <<disk, now, notCheckpointVars>>

\* main(): ui.start_main_menu() once UserInterface() has returned, and the
\* button Return to Main Menu
StartMainMenu ==
    /\ \/ pc = "loaded"
       \/ pc = "menu" /\ "start_main_menu" \in menu.callbacks
    /\ Shown(start_main_menu(Current))

CheckpointNext ==
    \/ Tick
    \/ SaveOpen
    \/ SaveDump
    \/ Crash
    \/ UserInterfaceInit
    \/ StartMainMenu

CheckpointSpec == CheckpointInit /\ [][CheckpointNext]_vars

(***************************************************************************)
(* fill_graph followed by the size of the graph and the clock: the names   *)
(* of the files its save() calls open.                                     *)
(***************************************************************************)
\* graph_files/{date_time}_RoyalsGraph_{num_royals}royals
file_name(date_time, num_royals) == <<date_time, num_royals>>

\* save() at date_time of a graph of num_royals royals: open(name, 'wb')
\* makes the file, or empties the one of that name, and pickle.dump fills it
save_file(d, date_time, num_royals) ==
    [d EXCEPT !.graph_files =
        (file_name(date_time, num_royals) :>
            [complete |-> TRUE, num_royals |-> num_royals]) @@ @]

\* the roots and the numbers of new royals of the crawls followed
NamedRoots == {{"George V"}, {"George V", "Victoria"}}
NamedGrowths == {0, SaveEvery + 1}

\* what the crawl followed by size and clock leaves alone
notNamedVars ==
    <<royals, P40, no_data, royals_added, familyVars, searchVars, birthdate, now,
      race, fetch, once,
      uiVars>>

\* one turn of the while loop, its save() writing the file
ExpandNamed(new_royals, known_royals) ==
    /\ pc = "fill"
    /\ roots_todo = {}
    /\ royals_queue # <<>>
    /\ LET due == save_due(len_royals, counter)
           curr_depth == Head(royals_queue)[1] + 1
           rest == Tail(royals_queue)
       IN  /\ graph_files' = IF due THEN save_size(graph_files, len_royals)
                                    ELSE graph_files
           /\ disk' = IF due THEN save_file(disk, now, len_royals) ELSE disk
           /\ counter' = IF due THEN len_royals ELSE counter
           /\ IF within_depth(curr_depth, max_depth)
              THEN /\ len_royals + new_royals <= MaxRoyals
                   /\ Len(rest) + new_royals + known_royals <= MaxQueue
                   /\ len_royals' = len_royals + new_royals
                   /\ royals_queue' =
                         rest \o Entries(new_royals + known_royals, curr_depth)
                   /\ op' = Call("add_children_parents", "", "", "none")
              ELSE /\ new_royals = 0
                   /\ known_royals = 0
                   /\ royals_queue' = rest
                   /\ op' = Call("pop", "", "", "none")
                   /\ UNCHANGED len_royals
    /\ UNCHANGED <<pc, root_names, roots_todo, max_depth, notNamedVars>>

\* the queue is empty: fill_graph's last save, writing the file
FinishNamed ==
    /\ pc = "fill"
    /\ roots_todo = {}
    /\ royals_queue = <<>>
    /\ graph_files' = final_save(graph_files, len_royals)
    /\ disk' = save_file(disk, now, len_royals)
    /\ pc' = "done"
    /\ op' = Call("save", "", "", "none")
    /\ UNCHANGED <<root_names, roots_todo, max_depth, royals_queue, counter,
                   len_royals, notNamedVars>>

NamedNext ==
    \/ \E names \in NamedRoots, depth_limit \in 1..MaxDepth :
          FillGraphSize(names, depth_limit)
    \/ \E name \in RootNamePool : SeedRootSize(name, TRUE)
    \/ \E new_royals \in NamedGrowths, known_royals \in {0, 1} :
          ExpandNamed(new_royals, known_royals)
    \/ FinishNamed
    \/ Tick

NamedSpec == SizeInit /\ [][NamedNext]_vars

(***************************************************************************)
(* One fetch of WikiExtract, request by request: get_children,             *)
(* get_parents, get_birthdate and get_wikidata_id each send one request,   *)
(* and on an HTTPError sleep and call themselves again with the same       *)
(* argument. fetch.depth counts the calls nested in each other.            *)
(***************************************************************************)
Fetches == {"get_children", "get_parents", "get_birthdate", "get_wikidata_id"}
FetchArgs == {"Q1", "Victoria"}

\* the retry-after headers of the rate-limited responses
RetryAfters == { <<"0">>, <<"1", "2">> }

\* what a response that is not an error carries: ids or dates, in order
Responses == { <<>>, <<"Q2">>, <<"Q3", "Q2", "Q3">> }

\* the calls nested in each other the interpreter allows before it raises
\* RecursionError (sys.getrecursionlimit() of CPython by default; the frames
\* of the callers and of the libraries come off it)
RecursionLimit == 1000

RECURSIVE Distinct(_)
\* the elements of a sequence, each once, in the order of their first places
Distinct(s) ==
    IF s = <<>> THEN <<>>
    ELSE LET rest == Distinct(SubSeq(s, 1, Len(s) - 1))
         IN  IF \E i \in 1..Len(rest) : rest[i] = s[Len(s)]
             THEN rest
             ELSE Append(rest, s[Len(s)])

\* what a fetch returns for a response: get_wikidata_id the first id or None
\* (IndexError), get_birthdate the list, get_children and get_parents a set
return_value(fn, response) ==
    IF fn = "get_wikidata_id"
    THEN IF response = <<>> THEN NoValue
         ELSE [isNone |-> FALSE, items |-> <<response[1]>>]
    ELSE IF fn = "get_birthdate"
    THEN [isNone |-> FALSE, items |-> response]
    ELSE [isNone |-> FALSE, items |-> Distinct(response)]

\* the seconds a fetch sleeps for a retry-after header
sleep_seconds(retry_after) == int(retry_after) + 1

\* return WikiExtract.get_...(wiki_id): the same request again, one call
\* deeper, or RecursionError when the interpreter allows no deeper call
retry_call(f) ==
    IF f.depth < RecursionLimit
    THEN [f EXCEPT !.depth = @ + 1, !.issued = @ + 1, !.status = "requested"]
    ELSE [f EXCEPT !.status = "raised", !.raised = "RecursionError"]

FetchInit ==
    /\ royals = EmptyGraph
    /\ op = Call("__init__", "", "", "none")
    /\ pc = "idle"
    /\ fetch = NoFetch
    /\ disk = EmptyDisk /\ now = 0
    /\ P40 = {} /\ root_names = {} /\ roots_todo = {} /\ max_depth = 0
    /\ royals_queue = <<>> /\ royals_added = {} /\ counter = 0
    /\ graph_files = <<>>
    /\ family = EmptyGraph /\ family_depth = 0 /\ family_id = "" /\ family_queue = <<>>
    /\ query_ids = <<"", "">> /\ frontier = <<>> /\ visited = {}
    /\ breadth = NoResult /\ depth = NoResult
    /\ birthdate = NoneList /\ len_royals = 0 /\ race = NoRace
    /\ no_data = {} /\ expanded = {} /\ once = NoOnce
    /\ NoSelection

\* what a fetch leaves alone
notFetchVars ==
    <<royals, op, pc, crawlVars, familyVars, searchVars, birthdate, disk, now,
      len_royals, race, once,
      uiVars>>

\* a caller calls one of the four fetches
FetchCall(fn, arg) ==
    /\ fetch.status \in {"none", "returned", "raised"}
    /\ fetch' = [NoFetch EXCEPT !.request = <<fn, arg>>, !.depth = 1,
                                !.issued = 1, !.status = "requested"]
    /\ UNCHANGED notFetchVars

\* except urllib.error.HTTPError as excep: the request was rate-limited
RateLimited(retry_after) ==
    /\ fetch.status = "requested"
    /\ fetch' = [fetch EXCEPT !.status = "limited", !.retry_after = retry_after,
                              !.has_retry_after = TRUE]
    /\ UNCHANGED notFetchVars

\* except urllib.error.HTTPError as excep, for an error response without a
\* retry-after header: excep.headers["retry-after"] is None
HTTPErrorNoRetryAfter ==
    /\ fetch.status = "requested"
    /\ fetch' = [fetch EXCEPT !.status = "limited", !.retry_after = <<>>,
                              !.has_retry_after = FALSE]
    /\ UNCHANGED notFetchVars

\* time.sleep(int(retry_after) + 1); int(None) raises TypeError
Sleep ==
    /\ fetch.status = "limited"
    /\ fetch' = IF fetch.has_retry_after
                THEN [fetch EXCEPT !.status = "slept", !.sleeps = @ + 1,
                                   !.slept = sleep_seconds(fetch.retry_after)]
                ELSE [fetch EXCEPT !.status = "raised", !.raised = "TypeError"]
    /\ UNCHANGED notFetchVars

\* the fetch calls itself with the argument it was called with
Retry ==
    /\ fetch.status = "slept"
    /\ fetch' = retry_call(fetch)
    /\ UNCHANGED notFetchVars

\* the request is answered, and every nested call returns the value
Answered(response) ==
    /\ fetch.status = "requested"
    /\ fetch' = [fetch EXCEPT !.status = "returned",
                              !.value = return_value(fetch.request[1], response)]
    /\ UNCHANGED notFetchVars

FetchNext ==
    \/ \E fn \in Fetches, arg \in FetchArgs : FetchCall(fn, arg)
    \/ \E retry_after \in RetryAfters : RateLimited(retry_after)
    \/ HTTPErrorNoRetryAfter
    \/ Sleep
    \/ Retry
    \/ \E response \in Responses : Answered(response)

FetchSpec == FetchInit /\ [][FetchNext]_vars

(***************************************************************************)
(* The searches: connected_breadth and connected_depth, raced by           *)
(* run_race_pathfinders on the graph load() returned.                      *)
(***************************************************************************)
\* the royals of a loaded graph, and an id no loaded graph holds
SearchIds == {"Q1", "Q2", "Q3", "Q4", "Q5"}
AbsentId == "Q9"

\* the <<parent, child>> edges a loaded graph may hold: a short and a long way
\* from Q1 to Q5, a link across, a royal its own parent, two royals each the
\* parent of the other
Statements ==
    {<<"Q1", "Q2">>, <<"Q2", "Q5">>, <<"Q1", "Q3">>, <<"Q3", "Q4">>, <<"Q4", "Q5">>,
     <<"Q3", "Q2">>, <<"Q1", "Q1">>, <<"Q4", "Q3">>}

\* the graph of the royals SearchIds with the edges stmts
GraphOf(stmts) ==
    [id \in SearchIds |->
        [wiki_id |-> id, name |-> Label(id), birth_year |-> -1,
         parents |-> {e[1] : e \in {x \in stmts : x[2] = id}},
         children |-> {e[2] : e \in {x \in stmts : x[1] = id}}]]

LoadedGraphs ==
    {GraphOf(stmts) : stmts \in {x \in SUBSET Statements : Cardinality(x) <= MaxGraphEdges}}

\* the children left out
breadth_neighbours_parents_only(g, v) == g[v].parents

\* set.union(v.parents, v.children) of connected_breadth
breadth_neighbours(g, v) == g[v].parents \cup g[v].children

\* the parents left out
depth_neighbours_children_only(g, v) == g[v].children

\* set.union(v.parents, v.children) of connected_depth
depth_neighbours(g, v) == g[v].parents \cup g[v].children

\* the graph after v.parents.update(v.children): the union made in place
graph_after_update(g, v) == [g EXCEPT ![v].parents = @ \cup g[v].children]

\* the graph after set.union(v.parents, v.children): the union is a new
\* set, v.parents and v.children are left as they were
graph_after_union(g, v) == g

\* queue.pop() in place of queue.pop(0)
breadth_pop_last(queue) ==
    [entry |-> queue[Len(queue)], rest |-> SubSeq(queue, 1, Len(queue) - 1)]

\* queue.pop(0)
breadth_pop(queue) == [entry |-> Head(queue), rest |-> Tail(queue)]

\* stack.pop()
depth_pop(stack) ==
    [entry |-> stack[Len(stack)], rest |-> SubSeq(stack, 1, Len(stack) - 1)]

\* a search in progress: the queue or stack, the visited set, and what the
\* search returned if it has
Search(pending, seen) ==
    [pending |-> pending, seen |-> seen, returned |-> FALSE, found |-> FALSE,
     path |-> <<>>]

Returned(st, found, path) ==
    [st EXCEPT !.returned = TRUE, !.found = found, !.path = path]

RECURSIVE breadth_visit_stale_path(_, _, _, _)
\* the for loop queueing a neighbour with the path to v, not the path to it
breadth_visit_stale_path(st, us, path_so_far, id2) ==
    IF us = <<>> THEN st
    ELSE LET u == Head(us)
         IN  IF u = id2 THEN Returned(st, TRUE, Append(path_so_far, u))
             ELSE IF u \notin st.seen
             THEN breadth_visit_stale_path(
                    [st EXCEPT !.seen = @ \cup {u},
                               !.pending = Append(@, <<u, path_so_far>>)],
                    Tail(us), path_so_far, id2)
             ELSE breadth_visit_stale_path(st, Tail(us), path_so_far, id2)

RECURSIVE breadth_visit(_, _, _, _)
\* the for loop of connected_breadth over the neighbours us, in that order
breadth_visit(st, us, path_so_far, id2) ==
    IF us = <<>> THEN st
    ELSE LET u == Head(us)
         IN  IF u = id2 THEN Returned(st, TRUE, Append(path_so_far, u))
             ELSE IF u \notin st.seen
             THEN breadth_visit(
                    [st EXCEPT !.seen = @ \cup {u},
                               !.pending = Append(@, <<u, Append(path_so_far, u)>>)],
                    Tail(us), path_so_far, id2)
             ELSE breadth_visit(st, Tail(us), path_so_far, id2)

RECURSIVE depth_visit_unmarked(_, _, _, _)
\* the for loop without its test of the visited set
depth_visit_unmarked(st, us, path_so_far, id2) ==
    IF us = <<>> THEN st
    ELSE LET u == Head(us)
         IN  IF u = id2 THEN Returned(st, TRUE, Append(path_so_far, u))
             ELSE depth_visit_unmarked(
                    [st EXCEPT !.seen = @ \cup {u},
                               !.pending = Append(@, <<u, Append(path_so_far, u)>>)],
                    Tail(us), path_so_far, id2)

RECURSIVE depth_visit(_, _, _, _)
\* the for loop of connected_depth over the neighbours us, in that order
depth_visit(st, us, path_so_far, id2) ==
    IF us = <<>> THEN st
    ELSE LET u == Head(us)
         IN  IF u = id2 THEN Returned(st, TRUE, Append(path_so_far, u))
             ELSE IF u \notin st.seen
             THEN depth_visit(
                    [st EXCEPT !.seen = @ \cup {u},
                               !.pending = Append(@, <<u, Append(path_so_far, u)>>)],
                    Tail(us), path_so_far, id2)
             ELSE depth_visit(st, Tail(us), path_so_far, id2)

\* what a search hands back to its caller
Result(st) == [returned |-> TRUE, found |-> st.found, path |-> st.path, raised |-> "none"]

\* the graph load() returned, before any call on it
SearchInit ==
    /\ royals \in LoadedGraphs
    /\ NoCrawlNoSearch

\* run_race_pathfinders up to the first turn of connected_breadth's while
\* loop; self._royals[id1] raises KeyError for an id1 the graph does not hold
RunRace(id1, id2) ==
    /\ pc = "idle"
    /\ UNCHANGED <<birthdate, ioVars>>
    /\ query_ids' = <<id1, id2>>
    /\ IF id1 \in DOMAIN royals
       THEN /\ frontier' = <<<<id1, <<id1>>>>>>
            /\ visited' = {}
            /\ expanded' = {}
            /\ pc' = "breadth"
            /\ op' = Call("connected_breadth", "", "", "none")
            /\ UNCHANGED breadth
       ELSE /\ breadth' = [NoResult EXCEPT !.raised = "KeyError"]
            /\ pc' = "raised"
            /\ op' = Call("connected_breadth", "", "", "KeyError")
            /\ UNCHANGED <<frontier, visited, expanded>>
    /\ UNCHANGED <<royals, crawlVars, familyVars, depth>>

\* one turn of connected_breadth's while loop, or its return when the queue
\* is empty; on return connected_depth starts
BreadthStep ==
    /\ pc = "breadth"
    /\ UNCHANGED <<birthdate, ioVars>>
    /\ \E st \in
          IF frontier = <<>>
          THEN {Returned(Search(frontier, visited), FALSE, <<>>)}
          ELSE LET popped == breadth_pop(frontier)
                   v == popped.entry[1]
                   path_so_far == popped.entry[2]
               IN  {breadth_visit(Search(popped.rest, visited), us, path_so_far,
                                  query_ids[2]) :
                       us \in Orders(breadth_neighbours(royals, v))} :
          IF st.returned
          THEN /\ breadth' = Result(st)
               /\ frontier' = <<<<query_ids[1], <<query_ids[1]>>>>>>
               /\ visited' = {}
               /\ expanded' = {}
               /\ pc' = "depth"
               /\ op' = Call("connected_depth", "", "", "none")
          ELSE /\ frontier' = st.pending
               /\ visited' = st.seen
               /\ expanded' = expanded \cup {breadth_pop(frontier).entry[1]}
               /\ UNCHANGED <<breadth, pc, op>>
    /\ royals' = IF frontier = <<>> THEN royals
                 ELSE graph_after_union(royals, breadth_pop(frontier).entry[1])
    /\ UNCHANGED <<crawlVars, familyVars, query_ids, depth>>

\* one turn of connected_depth's while loop, or its return when the stack is
\* empty; on return run_race_pathfinders asserts found_breadth == found_depth
DepthStep ==
    /\ pc = "depth"
    /\ UNCHANGED <<birthdate, ioVars>>
    /\ \E st \in
          IF frontier = <<>>
          THEN {Returned(Search(frontier, visited), FALSE, <<>>)}
          ELSE LET popped == depth_pop(frontier)
                   v == popped.entry[1]
                   path_so_far == popped.entry[2]
               IN  {depth_visit(Search(popped.rest, visited), us, path_so_far,
                                query_ids[2]) :
                       us \in Orders(depth_neighbours(royals, v))} :
          IF st.returned
          THEN /\ depth' = Result(st)
               /\ frontier' = <<>>
               /\ visited' = {}
               /\ expanded' = {}
               /\ pc' = IF breadth.found = st.found THEN "raced" ELSE "raised"
               /\ op' = Call("run_race_pathfinders", "", "",
                             IF breadth.found = st.found THEN "none"
                             ELSE "AssertionError")
          ELSE /\ frontier' = st.pending
               /\ visited' = st.seen
               /\ expanded' = expanded \cup {depth_pop(frontier).entry[1]}
               /\ UNCHANGED <<depth, pc, op>>
    /\ royals' = IF frontier = <<>> THEN royals
                 ELSE graph_after_union(royals, depth_pop(frontier).entry[1])
    /\ UNCHANGED <<crawlVars, familyVars, query_ids, breadth>>

\* longest elapsed time a search returns, in ticks of the clock
MaxTime == 1

\* the path of the slower search
get_race_results_text_slower(time_breadth, time_depth, path_breadth, path_depth, algo_index) ==
    IF time_breadth = time_depth
    THEN <<path_breadth, path_depth>>[algo_index + 1]
    ELSE IF time_breadth < time_depth THEN path_depth ELSE path_breadth

\* the path get_race_results_text returns; algo_index is what
\* random.choice([0, 1]) gives on a tie
get_race_results_text(time_breadth, time_depth, path_breadth, path_depth, algo_index) ==
    IF time_breadth = time_depth
    THEN <<path_breadth, path_depth>>[algo_index + 1]
    ELSE IF time_breadth < time_depth THEN path_breadth ELSE path_depth

\* run_race_pathfinders after its assertion: the results text and path for
\* the elapsed times the two searches returned
RaceResults(time_breadth, time_depth, algo_index) ==
    /\ pc = "raced"
    /\ race' = [shown |-> TRUE, found |-> breadth.found,
                time_breadth |-> time_breadth, time_depth |-> time_depth,
                algo_index |-> algo_index,
                path |-> get_race_results_text(time_breadth, time_depth, breadth.path,
                                               depth.path, algo_index)]
    /\ pc' = "shown"
    /\ op' = Call("get_race_results_text", "", "", "none")
    /\ UNCHANGED <<royals, crawlVars, familyVars, searchVars, birthdate, disk, now,
                   len_royals, fetch, once, uiVars>>

SearchNext ==
    \/ \E id1 \in SearchIds \cup {AbsentId}, id2 \in SearchIds \cup {AbsentId} :
          RunRace(id1, id2)
    \/ BreadthStep
    \/ DepthStep
    \/ \E time_breadth \in 0..MaxTime, time_depth \in 0..MaxTime, algo_index \in {0, 1} :
          RaceResults(time_breadth, time_depth, algo_index)

SearchSpec == SearchInit /\ [][SearchNext]_vars

\* loaded graphs with cycles: a royal its own parent, two royals each the
\* parent of the other, three royals related in a ring, and all of Statements
CyclicGraphs ==
    { GraphOf({<<"Q1", "Q1">>, <<"Q1", "Q2">>, <<"Q2", "Q5">>}),
      GraphOf({<<"Q3", "Q4">>, <<"Q4", "Q3">>, <<"Q1", "Q3">>, <<"Q4", "Q5">>}),
      GraphOf({<<"Q1", "Q2">>, <<"Q1", "Q3">>, <<"Q3", "Q2">>}),
      GraphOf(Statements) }

SearchFairInit ==
    /\ royals \in CyclicGraphs
    /\ NoCrawlNoSearch

\* one turn of the while loop of the search that is running
SearchStep == BreadthStep \/ DepthStep

SearchFairNext ==
    \/ \E id1 \in SearchIds, id2 \in SearchIds : RunRace(id1, id2)
    \/ SearchStep

\* a search runs on one thread that nothing stops: it takes the next turn of
\* its while loop whenever there is one
SearchFairSpec == SearchFairInit /\ [][SearchFairNext]_vars /\ WF_vars(SearchStep)

(***************************************************************************)
(* visualize_family called from the menu on the graph load() returned.     *)
(***************************************************************************)
\* largest max_depth handed to visualize_family
MaxFamilyDepth == 1

FamilyInit ==
    /\ royals \in LoadedGraphs
    /\ NoCrawlNoSearch

FamilyNext ==
    \/ \E wiki_id \in SearchIds, depth_limit \in 0..MaxFamilyDepth :
          VisualizeFamily(wiki_id, depth_limit)
    \/ FamilyExpand
    \/ FamilyShown

FamilySpec == FamilyInit /\ [][FamilyNext]_vars

(***************************************************************************)
(* The menus: the buttons a user can press, from the graph load() returns. *)
(***************************************************************************)
\* the graphs on disk: one royal; two royals; three royals, two of them of
\* one name
MenuGraphs ==
    LET g1 == add_royal_with_birth_year(EmptyGraph, "Q1", "George V", 1865)
        g2 == add_edge(add_royal_with_birth_year(g1, "Q2", "Victoria", 1819),
                       "Q2", "Q1")
        g3 == add_edge(add_royal_with_birth_year(g2, "Q3", "George V", -1), "Q1", "Q3")
    IN  {g1, g2, g3}

\* a process starts with the file 'graph' holding one of the graphs
MenuInit ==
    /\ royals = EmptyGraph
    /\ op = Call("__init__", "", "", "none")
    /\ pc = "idle"
    /\ disk \in {[EmptyDisk EXCEPT !.graph = <<PickleOf(g)>>] : g \in MenuGraphs}
    /\ now = 0
    /\ P40 = {} /\ root_names = {} /\ roots_todo = {} /\ max_depth = 0
    /\ royals_queue = <<>> /\ royals_added = {} /\ counter = 0
    /\ graph_files = <<>>
    /\ family = EmptyGraph /\ family_depth = 0 /\ family_id = "" /\ family_queue = <<>>
    /\ query_ids = <<"", "">> /\ frontier = <<>> /\ visited = {}
    /\ breadth = NoResult /\ depth = NoResult
    /\ birthdate = NoneList /\ len_royals = 0 /\ race = NoRace /\ fetch = NoFetch
    /\ no_data = {} /\ expanded = {} /\ once = NoOnce
    /\ NoSelection

\* the buttons of the main menu
RunRacePathfinders ==
    /\ pc = "menu"
    /\ "run_race_pathfinders" \in menu.callbacks
    /\ Shown(run_race_pathfinders(Current, royals))

RunShowFamily ==
    /\ pc = "menu"
    /\ "run_show_family" \in menu.callbacks
    /\ Shown(run_show_family(Current, royals))

\* the buttons Randomize Royal and Return to Royal Selection Screen
CurrentModeMethod ==
    /\ pc = "menu"
    /\ "current_mode_method" \in menu.callbacks
    /\ Shown(call_method(Current, royals, menu.method))

\* the button Submit of the selection screen, name in the text input
RoyalSelectionCallback(name) ==
    /\ pc = "menu"
    /\ "royal_selection_callback" \in menu.callbacks
    /\ Shown(royal_selection_callback(Current, royals, name))

\* the selector of pick_royal_by_birth returns an item
SetQueryRoyalId(wiki_id) ==
    /\ pc = "menu"
    /\ "set_query_royal_id" \in menu.callbacks
    /\ wiki_id \in menu.items
    /\ Shown(set_query_royal_id(Current, royals, wiki_id))

\* the button Submit of the screen that asks for the depth
ShowFamilyCallback(depth_limit) ==
    /\ pc = "menu"
    /\ "show_family_callback" \in menu.callbacks
    /\ Shown(show_family_callback(Current, royals, depth_limit))

MenuNext ==
    \/ UserInterfaceInit
    \/ StartMainMenu
    \/ RunRacePathfinders
    \/ RunShowFamily
    \/ CurrentModeMethod
    \/ \E name \in TypedNames : RoyalSelectionCallback(name)
    \/ \E wiki_id \in Ids : SetQueryRoyalId(wiki_id)
    \/ \E depth_limit \in 0..MaxFamilyDepth : ShowFamilyCallback(depth_limit)

MenuSpec == MenuInit /\ [][MenuNext]_vars

(***************************************************************************)
(* Distances in the knowledge source's data.                               *)
(***************************************************************************)
\* the ids one parent or child statement of src away from an id of S
SourceNeighbours(src, S) ==
    {e[2] : e \in {x \in src : x[1] \in S}} \cup {e[1] : e \in {x \in src : x[2] \in S}}

RECURSIVE SourceBall(_, _, _)
\* the ids within d statements of an id of S, either direction
SourceBall(src, S, d) ==
    IF d <= 0 THEN S
    ELSE LET B == SourceBall(src, S, d - 1) IN B \cup SourceNeighbours(src, B)

\* the ids fill_graph's root names resolve to
ResolvedRoots == {get_wikidata_id(name) : name \in root_names} \ {NoneId}

Next ==
    \/ \E wiki_id \in ApiIds, name \in ApiNames, birth_years \in BirthResponses :
          AddRoyal(wiki_id, name, birth_years)
    \/ \E wiki_id \in ApiIds, name \in ApiNames, birth_year \in {-1, 1819} :
          AddRoyalWithBirthYear(wiki_id, name, birth_year)
    \/ \E parent_id \in ApiIds, child_id \in ApiIds : AddEdge(parent_id, child_id)
    \/ \E names \in SUBSET RootNamePool, depth_limit \in 0..MaxDepth, src \in Sources :
          FillGraph(names, depth_limit, src, {})
    \/ \E name \in RootNamePool : SeedRoot(name)
    \/ Expand
    \/ Finish
    \/ \E wiki_id \in Ids, depth_limit \in 0..MaxDepth :
          VisualizeFamily(wiki_id, depth_limit)
    \/ FamilyExpand
    \/ FamilyShown

Spec == Init /\ [][Next]_vars

(***************************************************************************)
(* Properties of the store and of the crawl.                               *)
(***************************************************************************)
Symmetric(g) ==
    \A a \in DOMAIN g, b \in DOMAIN g : a \in g[b].parents <=> b \in g[a].children

NoSelfRelation(g) ==
    \A a \in DOMAIN g : a \notin g[a].parents /\ a \notin g[a].children

AddFns == {"add_royal", "add_royal_with_birth_year"}

\* C1: in every state of the store calls, of the crawl and of the family
\* extraction, A is a parent of B exactly when B is a child of A, in the
\* graph and in the family graph.
C1_Symmetry == Symmetric(royals) /\ Symmetric(family)

\* a finished crawl has joined two distinct royals
C1_Witness ==
    /\ pc = "done"
    /\ \E a \in DOMAIN royals, b \in DOMAIN royals :
          a # b /\ a \in royals[b].parents /\ b \in royals[a].children

\* C2: no royal is its own parent or its own child, in the graph and in the
\* family graph, whatever the knowledge source answers.
C2_NoSelfRelation == NoSelfRelation(royals) /\ NoSelfRelation(family)

\* C3: add_royal and add_royal_with_birth_year on an id the graph holds
\* change nothing: not the royals, not the name, birth year, parents or
\* children of any of them.
C3_IdempotentAdd ==
    [][(op'.fn \in AddFns /\ op'.id \in DOMAIN royals)
          => (royals' = royals /\ Cardinality(DOMAIN royals') = Cardinality(DOMAIN royals))]_vars

\* a royal with a child was added again under another name and kept its own
C3_Witness ==
    /\ op.fn \in AddFns
    /\ op.id \in DOMAIN royals
    /\ royals[op.id].name # op.name
    /\ royals[op.id].children # {}

\* C4: during and after fill_graph(roots, d) every royal of the graph is
\* within d statements of the knowledge source, either direction, of a root
\* that resolved.
C4_DepthBound ==
    pc \in {"fill", "done"} => DOMAIN royals \subseteq SourceBall(P40, ResolvedRoots, max_depth)

\* a crawl of depth 1 ended with a relative of a root in the graph and a
\* royal two statements away left out
C4_Witness ==
    /\ pc = "done"
    /\ max_depth = 1
    /\ DOMAIN royals \ ResolvedRoots # {}
    /\ SourceBall(P40, ResolvedRoots, 2) \ DOMAIN royals # {}

\* C10: a root name that resolves to no id leaves the graph and the queue as
\* they were and raises nothing, the for loop goes on with the other names,
\* every root that resolves is in the graph at the end, and a crawl none of
\* whose roots resolves ends with an empty graph.
C10_UnresolvedRoots ==
    /\ [][(op'.fn = "get_wikidata_id" /\ op'.id = NoneId /\ pc = "fill")
            => /\ royals' = royals
               /\ royals_queue' = royals_queue
               /\ op'.raised = "none"
               /\ pc' = "fill"
               /\ roots_todo' = roots_todo \ {op'.name}]_vars
    /\ [](pc = "done" => ResolvedRoots \subseteq DOMAIN royals)
    /\ [](pc = "done" /\ ResolvedRoots = {} => DOMAIN royals = {})

\* a crawl ended whose roots were one name that resolved and one that did not
C10_Witness ==
    /\ pc = "done"
    /\ root_names = {"George V", "NoSuchPerson12345"}
    /\ DOMAIN royals = {"Q1"}

(***************************************************************************)
(* Properties of the searches.                                             *)
(***************************************************************************)
\* the royals one parent or child link of g away from a royal of S
LinkedTo(g, S) == UNION {g[a].parents \cup g[a].children : a \in S}

RECURSIVE WithinLinks(_, _, _)
\* the royals at most n links from a royal of S
WithinLinks(g, S, n) ==
    IF n <= 0 THEN S
    ELSE LET B == WithinLinks(g, S, n - 1) IN B \cup LinkedTo(g, B)

\* b can be reached from a along parent and child links
Reachable(g, a, b) == b \in WithinLinks(g, {a}, Cardinality(DOMAIN g))

\* the least number of links from a to b, for b reachable from a
Distance(g, a, b) ==
    CHOOSE n \in 0..Cardinality(DOMAIN g) :
        /\ b \in WithinLinks(g, {a}, n)
        /\ \A m \in 0..(n - 1) : b \notin WithinLinks(g, {a}, m)

\* the preconditions of connected_breadth and connected_depth
ValidQuery ==
    /\ query_ids[1] \in DOMAIN royals
    /\ query_ids[2] \in DOMAIN royals
    /\ query_ids[1] # query_ids[2]

\* path goes from id1 to id2 along links of g and holds no id twice
ValidPath(g, path, id1, id2) ==
    /\ Len(path) >= 2
    /\ path[1] = id1
    /\ path[Len(path)] = id2
    /\ \A i \in 1..(Len(path) - 1) :
          path[i + 1] \in g[path[i]].parents \cup g[path[i]].children
    /\ \A i \in 1..Len(path), j \in 1..Len(path) : i # j => path[i] # path[j]

\* C5: for id1 != id2 both in the graph, connected_breadth and
\* connected_depth return the same found flag, and the assertion of
\* run_race_pathfinders does not fail.
C5_Agreement ==
    (ValidQuery /\ depth.returned)
        => (breadth.found = depth.found /\ op.raised # "AssertionError")

\* both searches found a path across several links
C5_Witness ==
    /\ pc = "raced"
    /\ ValidQuery
    /\ breadth.found /\ depth.found
    /\ Len(depth.path) > 2

\* C6: for id1 != id2 both in the graph, each search returns found = true
\* exactly when id2 can be reached from id1 along parent and child links,
\* and found = false comes with an empty path.
C6_FoundIffReachable ==
    ValidQuery =>
        /\ breadth.returned =>
              /\ breadth.found <=> Reachable(royals, query_ids[1], query_ids[2])
              /\ ~breadth.found => breadth.path = <<>>
        /\ depth.returned =>
              /\ depth.found <=> Reachable(royals, query_ids[1], query_ids[2])
              /\ ~depth.found => depth.path = <<>>

\* both searches went through royals linked to id1 and did not find id2
C6_Witness ==
    /\ pc = "raced"
    /\ ValidQuery
    /\ ~breadth.found /\ ~depth.found
    /\ Cardinality(WithinLinks(royals, {query_ids[1]}, 2) \ {query_ids[1]}) >= 2
    /\ LinkedTo(royals, {query_ids[2]}) # {}

\* C7: the path connected_breadth returns has the least number of links of
\* all ways from id1 to id2, so no more than the path connected_depth returns.
C7_ShortestPath ==
    (ValidQuery /\ breadth.returned /\ breadth.found) =>
        /\ Len(breadth.path) - 1 = Distance(royals, query_ids[1], query_ids[2])
        /\ (depth.returned /\ depth.found) => Len(breadth.path) <= Len(depth.path)

\* connected_depth returned a longer path than connected_breadth
C7_Witness ==
    /\ pc = "raced"
    /\ ValidQuery
    /\ breadth.found /\ depth.found
    /\ Len(breadth.path) < Len(depth.path)

\* C8: a path returned with found = true starts at id1, ends at id2, goes
\* along parent and child links of the graph and holds no id twice.
C8_PathValidity ==
    ValidQuery =>
        /\ (breadth.returned /\ breadth.found)
              => ValidPath(royals, breadth.path, query_ids[1], query_ids[2])
        /\ (depth.returned /\ depth.found)
              => ValidPath(royals, depth.path, query_ids[1], query_ids[2])

\* connected_depth put id1 on its stack a second time and still returned a
\* path of several links
C8_Witness ==
    /\ pc = "raced"
    /\ ValidQuery
    /\ depth.found
    /\ Len(depth.path) > 3
    /\ query_ids[1] \in royals[query_ids[1]].parents

\* C9: connected_breadth and connected_depth called with id1 = id2, or with
\* an id the graph does not hold, raise an error and return nothing.
C9_FailFast ==
    ~ValidQuery =>
        /\ ~breadth.returned /\ ~depth.returned
        /\ pc \notin {"idle", "breadth", "depth"} => breadth.raised # "none"

(***************************************************************************)
(* More properties of the store.                                           *)
(***************************************************************************)
\* C16: add_edge with a parent id or a child id the graph does not hold
\* raises ValueError and leaves the graph as it was: the same royals, each
\* with the parents and children it had; with both ids in the graph it
\* does not raise.
C16_AddEdgeAbsent ==
    [][(op'.fn = "add_edge")
          => IF op'.id \in DOMAIN royals /\ op'.name \in DOMAIN royals
             THEN op'.raised = "none"
             ELSE op'.raised = "ValueError" /\ royals' = royals]_vars

\* add_edge raised for a child the graph does not hold, the parent being a
\* royal of the graph
C16_Witness ==
    /\ op = Call("add_edge", "Q1", "Q2", "ValueError")
    /\ DOMAIN royals = {"Q1"}

\* the year written as four digits at the start of the first birth date of
\* an answer, -1 when there is no such year
FirstCandidateYear(answer) ==
    IF ~answer.isList THEN -1
    ELSE IF answer.val = <<>> THEN -1
    ELSE IF Len(answer.val[1]) < 4 THEN -1
    ELSE IF \E i \in 1..4 : answer.val[1][i] \notin Digits THEN -1
    ELSE 1000 * DigitValue(answer.val[1][1]) + 100 * DigitValue(answer.val[1][2])
         + 10 * DigitValue(answer.val[1][3]) + DigitValue(answer.val[1][4])

\* C20: a royal add_royal adds has for birth year the number written by the
\* first four characters of the first birth date get_birthdate answered,
\* when that date has four characters or more and the first four are
\* digits, and -1 otherwise (None, an empty list, a shorter string, a minus
\* sign in front); the dates after the first are not used. So for every
\* royal a crawl adds.
C20_BirthYear ==
    /\ [][(op'.fn = "add_royal" /\ op'.id \notin DOMAIN royals)
            => royals'[op'.id].birth_year = FirstCandidateYear(birthdate')]_vars
    /\ [](pc \in {"fill", "done"}
            => \A id \in DOMAIN royals :
                  royals[id].birth_year = FirstCandidateYear(get_birthdate(id)))

\* a royal added with a first birth date before year 0 and a second one of
\* four digits has birth year -1
C20_Witness ==
    /\ op.fn = "add_royal"
    /\ DOMAIN royals = {op.id}
    /\ birthdate = SomeList(<< <<"-", "0", "4", "4", "3">>, <<"1", "8", "1", "9">> >>)
    /\ royals[op.id].birth_year = -1

(***************************************************************************)
(* Properties of the checkpoint store.                                     *)
(***************************************************************************)
\* C11: load() called on what save() has just written returns a graph with
\* the royals, names, birth years, parents and children of the graph saved:
\* the file save() writes is the file load() reads.
C11_RoundTrip ==
    [][(op.fn = "save" /\ op.raised = "none" /\ op'.fn = "load")
          => (op'.raised = "none" /\ royals' = royals)]_vars

C13_AtomicSave ==
    pc = "crashed" =>
        \A name \in DOMAIN disk.graph_files : disk.graph_files[name].complete

\* the steps that are a turn of fill_graph's while loop
ExpandFns == {"add_children_parents", "pop"}

\* the size of the newest checkpoint, 0 when there is none
LastCheckpointSize ==
    IF graph_files = <<>> THEN 0 ELSE graph_files[Len(graph_files)].num_royals

\* C14: a turn of fill_graph's while loop that finds the graph more than 100
\* royals larger than at the last checkpoint (than 0 before the first) saves
\* it and sets the counter to its size before it takes the next entry; a
\* turn that finds it 100 or fewer larger saves nothing; the counter is the
\* size of the newest checkpoint throughout.
C14_PeriodicCheckpoint ==
    /\ [][(pc = "fill" /\ op'.fn \in ExpandFns)
            => /\ (len_royals - LastCheckpointSize > 100)
                     => /\ graph_files' = Append(graph_files, [num_royals |-> len_royals])
                        /\ counter' = len_royals
               /\ (len_royals - LastCheckpointSize <= 100)
                     => /\ graph_files' = graph_files
                        /\ counter' = counter]_vars
    /\ [](pc = "fill" => counter = LastCheckpointSize)

\* two periodic checkpoints, the second 101 royals after the first
C14_Witness ==
    /\ pc = "fill"
    /\ Len(graph_files) = 2
    /\ graph_files[1].num_royals = 101
    /\ graph_files[2].num_royals = 202

\* C15: fill_graph whose queue is empty does one thing, save the graph as it
\* is, and ends: the newest checkpoint of a finished crawl has the size of
\* the final graph, also when no root resolved and when a periodic
\* checkpoint of that size is there already.
C15_FinalCheckpoint ==
    /\ [][(pc = "fill" /\ roots_todo = {} /\ royals_queue = <<>>)
            => /\ pc' = "done"
               /\ op'.fn = "save"
               /\ graph_files' = Append(graph_files, [num_royals |-> len_royals])
               /\ len_royals' = len_royals]_vars
    /\ [](pc = "done" => (graph_files # <<>> /\ LastCheckpointSize = len_royals))

\* a crawl ended with a periodic and a final checkpoint of the same size
C15_Witness ==
    /\ pc = "done"
    /\ Len(graph_files) = 2
    /\ graph_files[1].num_royals = graph_files[2].num_royals

(***************************************************************************)
(* Properties of the fetches.                                              *)
(***************************************************************************)
\* C19: every rate-limited response of a fetch (an error response with a
\* retry-after value) is followed by one sleep of retry-after + 1 and then
\* by one more issue of the same request, however many responses were
\* rate-limited before, and a fetch whose error responses are all
\* rate-limited ends only by returning the value of the first response that
\* is not rate-limited: it never ends by raising.
C19_RetryProtocol ==
    /\ [][(fetch.status = "limited" /\ fetch.has_retry_after)
            => /\ fetch'.status = "slept"
               /\ fetch'.sleeps = fetch.sleeps + 1
               /\ fetch'.slept = int(fetch.retry_after) + 1]_vars
    /\ [][fetch.status = "slept"
            => /\ fetch'.status = "requested"
               /\ fetch'.request = fetch.request
               /\ fetch'.issued = fetch.issued + 1]_vars
    /\ [](fetch.status = "raised" => ~fetch.has_retry_after)

\* C27: whatever error response the knowledge source gives a fetch, with a
\* retry-after value or without, the fetch ends only by returning a value
\* or None: it never ends by raising.
C27_NoException == fetch.status # "raised"

(***************************************************************************)
(* More properties of the searches.                                        *)
(***************************************************************************)
\* C17: the path get_race_results_text reports is connected_breadth's when
\* its time is the lower, connected_depth's when its time is the lower, and
\* on equal times the one of the two that the random choice names; with
\* found false the path reported is empty.
C17_RaceWinner ==
    race.shown =>
        /\ race.time_breadth < race.time_depth => race.path = breadth.path
        /\ race.time_breadth > race.time_depth => race.path = depth.path
        /\ race.time_breadth = race.time_depth =>
              /\ race.algo_index = 0 => race.path = breadth.path
              /\ race.algo_index = 1 => race.path = depth.path
        /\ ~race.found => race.path = <<>>

\* a tie in which the searches found different paths and connected_depth's
\* was reported
C17_Witness ==
    /\ race.shown
    /\ race.found
    /\ race.time_breadth = race.time_depth
    /\ breadth.path # depth.path
    /\ race.path = depth.path

\* the relatives of a royal, and the royals that have any
Links(g, a) == g[a].parents \cup g[a].children
Linked(g) == {a \in DOMAIN g : Links(g, a) # {}}

\* the royals of g that have relatives are a chain from first to last: the
\* two ends have one relative, the others two, no royal is its own relative
\* and all of them can be reached from first
IsChain(g, first, last) ==
    /\ first # last
    /\ first \in DOMAIN g
    /\ last \in DOMAIN g
    /\ Cardinality(Links(g, first)) = 1
    /\ Cardinality(Links(g, last)) = 1
    /\ \A a \in Linked(g) \ {first, last} : Cardinality(Links(g, a)) = 2
    /\ \A a \in DOMAIN g : a \notin Links(g, a)
    /\ Linked(g) \subseteq WithinLinks(g, {first}, Cardinality(DOMAIN g))

\* path lists all n royals of the chain from id1 to id2, each next to a
\* relative of it: n - 1 edges
ChainPath(g, path, id1, id2) ==
    /\ Len(path) = Cardinality(Linked(g))
    /\ path[1] = id1
    /\ path[Len(path)] = id2
    /\ \A i \in 1..(Len(path) - 1) : path[i + 1] \in Links(g, path[i])
    /\ {path[i] : i \in 1..Len(path)} = Linked(g)

\* C18: in a graph whose edges are a chain of n >= 2 royals, each a parent
\* or a child of the next, connected_breadth and connected_depth from one
\* end to the other return found = true and the n royals of the chain in
\* order, a path of n - 1 edges.
C18_LinearChain ==
    IsChain(royals, query_ids[1], query_ids[2]) =>
        /\ breadth.returned =>
              /\ breadth.found
              /\ ChainPath(royals, breadth.path, query_ids[1], query_ids[2])
        /\ depth.returned =>
              /\ depth.found
              /\ ChainPath(royals, depth.path, query_ids[1], query_ids[2])

\* both searches returned a path of 3 edges along a chain of 4 royals
C18_Witness ==
    /\ IsChain(royals, query_ids[1], query_ids[2])
    /\ Cardinality(Linked(royals)) = 4
    /\ breadth.returned /\ depth.returned
    /\ Len(breadth.path) = 4 /\ Len(depth.path) = 4

(***************************************************************************)
(* Properties of the family extraction.                                    *)
(***************************************************************************)
\* the <<parent, child>> pairs a graph records, on either side
EdgesOf(g) ==
    {<<p, c>> \in (DOMAIN g) \X (DOMAIN g) : c \in g[p].children \/ p \in g[c].parents}

\* every royal of g is a royal of base with the same id, name and birth year
SameRoyals(g, base) ==
    \A id \in DOMAIN g :
        /\ id \in DOMAIN base
        /\ g[id].wiki_id = base[id].wiki_id
        /\ g[id].name = base[id].name
        /\ g[id].birth_year = base[id].birth_year

C22_RootsExpandedAtDepth0 ==
    (pc = "done" /\ max_depth = 0)
        => \A r \in ResolvedRoots : SourceNeighbours(P40, {r}) \subseteq DOMAIN royals

\* C22: with max_depth 0 fill_graph expands no root: every entry is taken
\* from the queue without a fetch, and during and after the crawl the graph
\* holds the roots that resolved and nothing else, none of them with a
\* parent or a child; with max_depth 1 or more a finished crawl holds the
\* parents and the children of every root that resolved.
C22_NoExpansionAtDepth0 ==
    /\ [][(pc = "fill" /\ max_depth = 0 /\ royals_queue' # royals_queue /\ roots_todo = {})
            => (op'.fn = "pop" /\ royals' = royals)]_vars
    /\ []((pc \in {"fill", "done"} /\ max_depth = 0)
            => /\ DOMAIN royals \subseteq ResolvedRoots
               /\ royals_added = {}
               /\ \A id \in DOMAIN royals :
                     royals[id].parents = {} /\ royals[id].children = {})
    /\ []((pc = "done" /\ max_depth >= 1)
            => \A r \in ResolvedRoots :
                  SourceNeighbours(P40, {r}) \subseteq DOMAIN royals)

\* a crawl of depth 0 ended with its roots alone, a relative of a root that
\* the knowledge source holds left out
C22_Witness ==
    /\ pc = "done"
    /\ max_depth = 0
    /\ ResolvedRoots # {}
    /\ DOMAIN royals = ResolvedRoots
    /\ \E r \in ResolvedRoots : SourceNeighbours(P40, {r}) \ DOMAIN royals # {}

\* C23: a crawl that puts an id on its queue only the first time it meets
\* it, and adds the royal and the edge every time, ends with the graph
\* fill_graph ends with for the same roots, depth and knowledge source: the
\* same royals with the same names and birth years, the same parents and
\* children.
C23_VisitedOnEnqueue == pc = "compared" => once.g = royals

\* the two crawls ended with the same royals and edges, the second having
\* left out queue entries, at depth 2
C23_Witness ==
    /\ pc = "compared"
    /\ max_depth = 2
    /\ once.skipped > 0
    /\ once.g = royals
    /\ \E a \in DOMAIN royals : royals[a].children \ {a} # {}

\* the number of tuples an answer holds, none for None
InfoLen(info) == IF info.isList THEN Len(info.val) ELSE 0

\* C24: add_children_parents on an id fill_graph has expanded before, the
\* knowledge source answering as it did, raises nothing and leaves every
\* royal, name, birth year, parents and children set as it was; the queue
\* gets one entry for each relative. So in every state of the while loop
\* for every id of royals_added, and so for every step of the crawl that
\* takes such an id from the queue and expands it.
C24_DuplicateExpansion ==
    /\ []((pc = "fill" /\ roots_todo = {})
            => \A curr_id \in royals_added :
                  \A children_info \in Fetched(no_data, "get_children", curr_id,
                                                get_children(P40, curr_id)),
                     parents_info \in Fetched(no_data, "get_parents", curr_id,
                                               get_parents(P40, curr_id)) :
                     LET r == add_children_parents(royals, royals_queue, curr_id, 1,
                                                   parents_info, children_info, FALSE)
                     IN  /\ r.raised = "none"
                         /\ r.g = royals
                         /\ Len(r.q) = Len(royals_queue) + InfoLen(parents_info)
                                          + InfoLen(children_info)
                         /\ SubSeq(r.q, 1, Len(royals_queue)) = royals_queue)
    /\ [][(/\ pc = "fill" /\ roots_todo = {} /\ royals_queue # <<>>
           /\ Head(royals_queue)[2] \in royals_added
           /\ op'.fn = "add_children_parents")
            => /\ royals' = royals
               /\ op'.raised = "none"
               /\ pc' = "fill"
               /\ royals_added' = royals_added
               /\ Len(royals_queue') >= Len(royals_queue) - 1]_vars

\* both royals of the knowledge source are roots and an entry of depth 2 is
\* on the queue: it was put there by the expansion of an entry of depth 1,
\* that is of a root, after the entries of depth 0 of both roots had been
\* expanded
C24_Witness ==
    /\ pc = "fill"
    /\ op.fn = "add_children_parents"
    /\ P40 = {<<"Q1", "Q2">>}
    /\ ResolvedRoots = {"Q1", "Q2"}
    /\ royals_added = {"Q1", "Q2"}
    /\ royals_queue # <<>>
    /\ royals_queue[Len(royals_queue)][1] = 2
    /\ royals["Q1"].children = {"Q2"}

(***************************************************************************)
(* The visited set of the searches.                                        *)
(***************************************************************************)
\* the id of the entry the running search takes next
NextTaken ==
    IF pc = "breadth" THEN breadth_pop(frontier).entry[1]
    ELSE depth_pop(frontier).entry[1]

EdgesDue(curr_id) ==
    (IF <<"get_parents", curr_id>> \in no_data THEN {}
     ELSE {e \in P40 : e[2] = curr_id})
    \cup (IF <<"get_children", curr_id>> \in no_data THEN {}
          ELSE {e \in P40 : e[1] = curr_id})

\* C26: when fill_graph expands a royal for which the knowledge source has
\* no data on the parents, on the children or on both, nothing is raised
\* and the crawl goes on with the rest of the queue; the royal stays in the
\* graph; the royals and edges of the side that was answered are added and
\* queued, and no royal, edge or queue entry is added for the side that was
\* not.
C26_MissingData ==
    /\ [](pc # "raised")
    /\ [][(/\ pc = "fill" /\ roots_todo = {} /\ royals_queue # <<>>
           /\ within_depth(Head(royals_queue)[1] + 1, max_depth)
           /\ \E fn \in {"get_parents", "get_children"} :
                 <<fn, Head(royals_queue)[2]>> \in no_data)
            => LET curr_id == Head(royals_queue)[2]
                   due == EdgesDue(curr_id)
               IN  /\ op'.fn = "add_children_parents"
                   /\ op'.raised = "none"
                   /\ pc' = "fill"
                   /\ curr_id \in DOMAIN royals'
                   /\ curr_id \in royals_added'
                   /\ \A id \in DOMAIN royals :
                         /\ id \in DOMAIN royals'
                         /\ royals'[id].name = royals[id].name
                         /\ royals'[id].birth_year = royals[id].birth_year
                   /\ EdgesOf(royals') = EdgesOf(royals) \cup due
                   /\ DOMAIN royals' =
                         DOMAIN royals \cup {e[1] : e \in due} \cup {e[2] : e \in due}
                   /\ Len(royals_queue') = Len(royals_queue) - 1 + Cardinality(due)
                   /\ SubSeq(royals_queue', 1, Len(royals_queue) - 1)
                         = Tail(royals_queue)]_vars

\* Q2 was expanded, the knowledge source having no data on its parents:
\* its child Q3 is in the graph and on the queue, its parent Q1 is not
C26_Witness ==
    /\ pc = "fill"
    /\ op.fn = "add_children_parents"
    /\ P40 = {<<"Q1", "Q2">>, <<"Q2", "Q3">>}
    /\ <<"get_parents", "Q2">> \in no_data
    /\ royals_added = {"Q2"}
    /\ DOMAIN royals = {"Q2", "Q3"}
    /\ royals["Q2"].children = {"Q3"}
    /\ royals["Q2"].parents = {}
    /\ royals_queue # <<>>

(***************************************************************************)
(* The queue of the crawl.                                                 *)
(***************************************************************************)
\* s is the start of q
IsPrefix(s, q) == Len(s) <= Len(q) /\ SubSeq(q, 1, Len(s)) = s

\* C28: fill_graph puts new entries behind the entries its queue holds and
\* takes the oldest entry, one each turn of the while loop, until the queue
\* is empty; an entry of depth d is expanded exactly when
\* d + 1 <= max_depth, and otherwise dropped with the graph, royals_added
\* and the rest of the queue left as they were.
C28_FifoFrontier ==
    /\ [][(pc = "fill" /\ roots_todo # {}) => IsPrefix(royals_queue, royals_queue')]_vars
    /\ [][(pc = "fill" /\ roots_todo = {} /\ royals_queue # <<>>)
            => LET d == Head(royals_queue)[1]
                   curr_id == Head(royals_queue)[2]
               IN  /\ IsPrefix(Tail(royals_queue), royals_queue')
                   /\ \A i \in Len(royals_queue)..Len(royals_queue') :
                         royals_queue'[i][1] = d + 1
                   /\ (d + 1 <= max_depth) <=> (op'.fn = "add_children_parents")
                   /\ (d + 1 <= max_depth) => curr_id \in royals_added'
                   /\ ~(d + 1 <= max_depth)
                         => /\ op'.fn = "pop"
                            /\ royals' = royals
                            /\ royals_added' = royals_added
                            /\ royals_queue' = Tail(royals_queue)]_vars
    /\ [](pc = "done" => royals_queue = <<>>)

\* an entry beyond the depth was dropped after a royal had been expanded,
\* with entries for two royals still on the queue
C28_Witness ==
    /\ pc = "fill"
    /\ op.fn = "pop"
    /\ max_depth >= 1
    /\ royals_added # {}
    /\ Len(royals_queue) >= 2
    /\ royals_queue[1][2] # royals_queue[2][2]

(***************************************************************************)
(* The store only grows.                                                   *)
(***************************************************************************)
\* C29: no call on the store and no step of a crawl takes a royal out of
\* the graph, takes an id out of a parents or children set, or changes the
\* name or the birth year of a royal the graph holds.
C29_NeverShrinks ==
    [][\A id \in DOMAIN royals :
          /\ id \in DOMAIN royals'
          /\ royals'[id].wiki_id = royals[id].wiki_id
          /\ royals'[id].name = royals[id].name
          /\ royals'[id].birth_year = royals[id].birth_year
          /\ royals[id].parents \subseteq royals'[id].parents
          /\ royals[id].children \subseteq royals'[id].children]_vars

\* a crawl ended with a royal that has two relatives, added one after the
\* other
C29_Witness ==
    /\ pc = "done"
    /\ Cardinality(DOMAIN royals) = 3
    /\ \E id \in DOMAIN royals :
          Cardinality((royals[id].parents \cup royals[id].children) \ {id}) = 2

(***************************************************************************)
(* The searches and the store.                                             *)
(***************************************************************************)
\* C30: no step of run_race_pathfinders, of connected_breadth or of
\* connected_depth changes the graph: the royals, their names, birth years,
\* parents and children are after each step what they were before it, so
\* connected_depth searches the graph connected_breadth searched.
C30_SearchReadOnly == [][royals' = royals]_vars

\* both searches have returned, connected_breadth with a path of two edges
\* or more, and the graph is a graph load() returned
C30_Witness ==
    /\ pc = "raced"
    /\ breadth.found
    /\ Len(breadth.path) >= 3
    /\ depth.returned
    /\ royals \in LoadedGraphs

(***************************************************************************)
(* The crawl ends.                                                         *)
(***************************************************************************)
\* more than the tuples one royal's two fetches can hold
FanOut == 2 * Cardinality(P40) + 1

RECURSIVE QueueRank(_)
\* what is left to do for the entries of a queue: an entry weighs FanOut
\* times an entry one step deeper, an entry at the depth limit or beyond
\* weighs 1
QueueRank(queue) ==
    IF queue = <<>> THEN 0
    ELSE LET left == IF max_depth > Head(queue)[1] THEN max_depth - Head(queue)[1]
                     ELSE 0
         IN  FanOut ^ left + QueueRank(Tail(queue))

\* C31: on every knowledge source, cyclic or not, with every set of root
\* names and every max_depth, fill_graph ends: each turn of the for loop
\* leaves one root name fewer to take, each turn of the while loop leaves
\* less to do for the entries of royals_queue although ids are queued again
\* and royals_added is never looked at, and a crawl that has begun reaches
\* its last save
C31_CrawlTerminates ==
    /\ [][(pc = "fill" /\ pc' = "fill")
            => \/ Cardinality(roots_todo') < Cardinality(roots_todo)
               \/ /\ roots_todo' = roots_todo
                  /\ QueueRank(royals_queue') < QueueRank(royals_queue)]_vars
    /\ (pc = "fill") ~> (pc = "done")

\* a crawl from both roots, to the largest depth, over two royals each the
\* parent of the other, has ended
C31_Witness ==
    /\ pc = "done"
    /\ P40 = {<<"Q1", "Q2">>, <<"Q2", "Q1">>}
    /\ max_depth = MaxDepth
    /\ {"Q1", "Q2"} \subseteq royals_added
    /\ Len(graph_files) >= 1

(***************************************************************************)
(* The searches end.                                                       *)
(***************************************************************************)
\* what is left to do for a search: the entries of its queue or stack, and
\* twice the royals it has not marked visited
SearchRank == Len(frontier) + 2 * Cardinality(DOMAIN royals \ visited)

\* C32: on every graph, with cycles, royals each the parent of the other or
\* a royal its own parent, and for every id1 and id2 of the graph,
\* connected_breadth and connected_depth end and return a result: each turn
\* of a while loop takes one entry and adds entries only for royals it marks
\* visited, so it leaves less to do, and a search that has begun returns
C32_SearchTerminates ==
    /\ [][(pc = pc' /\ pc \in {"breadth", "depth"}) => SearchRank' < SearchRank]_vars
    /\ (pc = "breadth") ~> (breadth.returned /\ pc = "depth")
    /\ (pc = "depth") ~> (depth.returned /\ pc \in {"raced", "raised"})

\* both searches have returned without a path on a graph where a royal is
\* its own parent, after connected_depth took that royal from its stack
C32_Witness ==
    /\ breadth.returned /\ ~breadth.found
    /\ depth.returned /\ ~depth.found
    /\ ~NoSelfRelation(royals)
    /\ query_ids[1] # query_ids[2]
    /\ "Q1" \in royals[query_ids[1]].parents \cup royals[query_ids[1]].children

(***************************************************************************)
(* The royals a graph refers to are its own.                               *)
(***************************************************************************)
\* every parent and every child of a royal of g is a royal of g
Closed(g) ==
    \A a \in DOMAIN g : g[a].parents \cup g[a].children \subseteq DOMAIN g

\* the ids of the entries of a queue
QueuedIds(queue) == {queue[i][2] : i \in DOMAIN queue}

\* C33: while fill_graph or visualize_family runs, and after, every parent
\* and every child of a royal of the graph being built is a royal of that
\* graph, every id in an entry of the queue is the id of a royal the graph
\* holds already, and add_edge raises no ValueError inside
\* add_children_parents
C33_ReferentialClosure ==
    /\ Closed(royals)
    /\ Closed(family)
    /\ pc = "fill" => QueuedIds(royals_queue) \subseteq DOMAIN royals
    /\ pc = "family" => QueuedIds(family_queue) \subseteq DOMAIN family
    /\ op.fn = "add_children_parents" => op.raised = "none"
    /\ pc # "raised"

\* fill_graph has added the relatives of a royal: the graph has an edge and
\* the queue holds the relatives
C33_Witness ==
    /\ pc = "fill"
    /\ op.fn = "add_children_parents"
    /\ royals_queue # <<>>
    /\ \E a \in DOMAIN royals : royals[a].parents # {}

C35_NoOverwrite ==
    pc \in {"fill", "done"} => Cardinality(DOMAIN disk.graph_files) = Len(graph_files)

(***************************************************************************)
(* The royals chosen in the menus.                                         *)
(***************************************************************************)
\* C36: whatever buttons are pressed, query_royal_ids[1] is set only if
\* query_royal_ids[0] is, the two are different royals when both are set,
\* no assertion of set_query_royal_id or royal_selection fails and no
\* callback raises, and the ids run_race_pathfinders hands to the two
\* searches are two different royals of the loaded graph
C36_QuerySelection ==
    /\ query_royal_ids[2] # NoneId => query_royal_ids[1] # NoneId
    /\ query_royal_ids[2] # NoneId => query_royal_ids[1] # query_royal_ids[2]
    /\ pc # "raised"
    /\ op.raised = "none"
    /\ op.fn = "connected_breadth"
          => /\ query_ids = query_royal_ids
             /\ query_ids[1] # query_ids[2]
             /\ {query_ids[1], query_ids[2]} \subseteq DOMAIN royals

\* the searches were called for two royals of one name, each picked by its
\* birth year, and the results screen is shown
C36_Witness ==
    /\ op.fn = "connected_breadth"
    /\ royals[query_ids[1]].name = royals[query_ids[2]].name
    /\ menu.title = "race_results"

====
